---- MODULE Spec2Model ----
(***************************************************************************)
(* A model of the PRISM validator (src/app.py): the validation engine      *)
(* validate_prism_file with its seven check sections, the configuration    *)
(* store behind update_config, and the text functions the checks use.      *)
(*                                                                         *)
(* Text.  TLC cannot look inside a TLA+ string, so every text the code     *)
(* inspects (column names, cell values, filenames) is a sequence of        *)
(* one-character strings; Strip, Lower, Upper, Replace, Contains do what   *)
(* Python's str methods do on it.                                          *)
(*                                                                         *)
(* Cells.  A DataFrame cell is NA (pandas reads an empty field as NaN, so  *)
(* a cell is never the empty text) or the text str(val) gives: every use   *)
(* of a cell in the code goes through pd.notna(val), str(val) or           *)
(* float(val), and float(val) = float(str(val)) for the values read_csv    *)
(* produces.                                                               *)
(***************************************************************************)
EXTENDS Integers, Sequences, FiniteSets, TLC

\* ------------------------------------------------------------------------
\* Python str operations on sequences of characters
\* ------------------------------------------------------------------------

UpperLetters == <<"A","B","C","D","E","F","G","H","I","J","K","L","M","N","O","P","Q","R","S","T","U","V","W","X","Y","Z">>

LowerLetters == <<"a","b","c","d","e","f","g","h","i","j","k","l","m","n","o","p","q","r","s","t","u","v","w","x","y","z">>

DigitChars == <<"0","1","2","3","4","5","6","7","8","9">>

Whitespace == {" ", "\t", "\n", "\r"}

Range(s) == {s[i] : i \in 1..Len(s)}

IndexOf(seq, x) == CHOOSE i \in 1..Len(seq) : seq[i] = x

Min(set) == CHOOSE x \in set : \A y \in set : x <= y

Max(set) == CHOOSE x \in set : \A y \in set : x >= y

IsUpperChar(c) == c \in Range(UpperLetters)

IsLowerChar(c) == c \in Range(LowerLetters)

\* c.isalpha() and c.isdigit() for one ASCII character
IsAlpha(c) == IsUpperChar(c) \/ IsLowerChar(c)

IsDigit(c) == c \in Range(DigitChars)

DigitValue(c) == IndexOf(DigitChars, c) - 1

LowerChar(c) == IF IsUpperChar(c) THEN LowerLetters[IndexOf(UpperLetters, c)] ELSE c

UpperChar(c) == IF IsLowerChar(c) THEN UpperLetters[IndexOf(LowerLetters, c)] ELSE c

\* s.lower(), s.upper()
Lower(s) == [i \in 1..Len(s) |-> LowerChar(s[i])]

Upper(s) == [i \in 1..Len(s) |-> UpperChar(s[i])]

\* s.strip()
Strip(s) ==
    LET keep == {i \in 1..Len(s) : s[i] \notin Whitespace}
    IN  IF keep = {} THEN <<>> ELSE SubSeq(s, Min(keep), Max(keep))

\* s.startswith(p), s.endswith(p), p in s
StartsWith(s, p) == Len(p) <= Len(s) /\ SubSeq(s, 1, Len(p)) = p

EndsWith(s, p) == Len(p) <= Len(s) /\ SubSeq(s, Len(s) - Len(p) + 1, Len(s)) = p

Contains(s, p) == \E i \in 0..(Len(s) - Len(p)) : SubSeq(s, i + 1, i + Len(p)) = p

\* s.replace(old, new): every non-overlapping occurrence, left to right
RECURSIVE Replace(_, _, _)
Replace(s, old, new) ==
    IF Len(s) < Len(old) THEN s
    ELSE IF SubSeq(s, 1, Len(old)) = old
         THEN new \o Replace(SubSeq(s, Len(old) + 1, Len(s)), old, new)
         ELSE <<Head(s)>> \o Replace(Tail(s), old, new)

\* x in list, for a Python list modelled as a sequence
In(x, list) == \E i \in 1..Len(list) : list[i] = x

\* [f(x) for x in list if p(x)] with the order kept
RECURSIVE SelectIdx(_, _, _)
SelectIdx(list, keep, i) ==
    IF i > Len(list) THEN <<>>
    ELSE (IF i \in keep THEN <<list[i]>> ELSE <<>>) \o SelectIdx(list, keep, i + 1)

\* the concatenation of a sequence of sequences
RECURSIVE Flatten(_)
Flatten(ss) == IF ss = <<>> THEN <<>> ELSE Head(ss) \o Flatten(Tail(ss))

\* str(n) for an integer n, and int(s) for a text of decimal digits
RECURSIVE NatToStr(_)
NatToStr(n) == IF n < 10 THEN <<DigitChars[n + 1]>>
               ELSE NatToStr(n \div 10) \o <<DigitChars[(n % 10) + 1]>>

IntToStr(n) == IF n < 0 THEN <<"-">> \o NatToStr(0 - n) ELSE NatToStr(n)

RECURSIVE StrToNat(_)
StrToNat(s) == IF s = <<>> THEN 0
               ELSE 10 * StrToNat(SubSeq(s, 1, Len(s) - 1)) + DigitValue(s[Len(s)])

AllDigits(s) == \A i \in 1..Len(s) : IsDigit(s[i])

\* ------------------------------------------------------------------------
\* float(val) and int(float(val)) on a cell's text
\* ------------------------------------------------------------------------

\* the first index of s holding a character of set, 0 when there is none
FirstIndex(s, set) ==
    LET hits == {i \in 1..Len(s) : s[i] \in set}
    IN  IF hits = {} THEN 0 ELSE Min(hits)

RECURSIVE Pow10(_)
Pow10(n) == IF n = 0 THEN 1 ELSE 10 * Pow10(n - 1)

NotANumber == [kind |-> "ValueError", neg |-> FALSE, int |-> 0, frac |-> FALSE]

\* float(s): surrounding whitespace is ignored; an optional sign, then
\* inf / infinity / nan (any case) or digits[.digits][e[sign]digits].
\* kind "num": the value is (neg ? -1 : 1) * (int + a fraction), frac telling
\* whether the fraction is non-zero; kind "ValueError": float() raises.
\* The parse goes left to right: sign, exponent, decimal point, digits.
Signed(t) == t # <<>> /\ t[1] \in {"+", "-"}

Negative(t) == Signed(t) /\ t[1] = "-"

Unsigned(t) == IF Signed(t) THEN Tail(t) ELSE t

\* digits * 10^(-scale), truncated toward zero, and whether it was truncated
Scaled(neg, digits, scale) ==
    IF scale <= 0
    THEN [kind |-> "num", neg |-> neg, int |-> digits * Pow10(0 - scale), frac |-> FALSE]
    ELSE [kind |-> "num", neg |-> neg, int |-> digits \div Pow10(scale),
          frac |-> (digits % Pow10(scale)) # 0]

\* intd "." fracd "e" expDigits, expNeg telling the exponent's sign
Decimal(neg, intd, fracd, expNeg, expDigits) ==
    IF ~(AllDigits(intd) /\ AllDigits(fracd) /\ Len(intd) + Len(fracd) > 0
         /\ AllDigits(expDigits))
    THEN NotANumber
    ELSE Scaled(neg, StrToNat(intd \o fracd),
                IF expNeg THEN Len(fracd) + StrToNat(expDigits)
                ELSE Len(fracd) - StrToNat(expDigits))

\* the mantissa split at its first "." (dot = 0: there is none)
Mantissa(neg, mant, dot, expNeg, expDigits) ==
    Decimal(neg,
            IF dot = 0 THEN mant ELSE SubSeq(mant, 1, dot - 1),
            IF dot = 0 THEN <<>> ELSE SubSeq(mant, dot + 1, Len(mant)),
            expNeg, expDigits)

\* an exponent, when written (hasExp), has at least one digit
Exponent(neg, mant, hasExp, expt) ==
    IF hasExp /\ Unsigned(expt) = <<>> THEN NotANumber
    ELSE Mantissa(neg, mant, FirstIndex(mant, {"."}), Negative(expt), Unsigned(expt))

\* the number split at its first "e" or "E" (epos = 0: there is none)
Number(neg, body, epos) ==
    Exponent(neg,
             IF epos = 0 THEN body ELSE SubSeq(body, 1, epos - 1),
             epos # 0,
             IF epos = 0 THEN <<>> ELSE SubSeq(body, epos + 1, Len(body)))

SpecialOrNumber(neg, body, lb) ==
    IF lb \in {<<"i","n","f">>, <<"i","n","f","i","n","i","t","y">>}
      THEN [kind |-> "inf", neg |-> neg, int |-> 0, frac |-> FALSE]
    ELSE IF lb = <<"n","a","n">>
      THEN [kind |-> "nan", neg |-> neg, int |-> 0, frac |-> FALSE]
    ELSE Number(neg, body, FirstIndex(lb, {"e"}))

SignAndBody(neg, body) == SpecialOrNumber(neg, body, Lower(body))

FloatOfStripped(t) == SignAndBody(Negative(t), Unsigned(t))

ParseFloat(s) == FloatOfStripped(Strip(s))

\* int(f) for the float f: truncation toward zero; int() of an infinity
\* raises OverflowError and int() of a NaN raises ValueError.  exc is ""
\* when no exception is raised.
IntOf(f) ==
    CASE f.kind = "num" -> [exc |-> "", val |-> IF f.neg THEN 0 - f.int ELSE f.int]
      [] f.kind = "inf" -> [exc |-> "OverflowError", val |-> 0]
      [] OTHER          -> [exc |-> "ValueError", val |-> 0]

\* int(float(val))
IntOfFloat(s) == IntOf(ParseFloat(s))

\* pd.notna(val): the cell NA is the empty sequence
NA == <<>>

NotNa(val) == val # NA

\* int(float(val)) under a bare "except: pass": the value, or no value
Parses(val) == IntOfFloat(val).exc = ""

IntVal(val) == IntOfFloat(val).val

\* an error message: the fixed text of the f-string, then what it interpolates
Msg(kind, args) == [kind |-> kind, args |-> args]

\* one entry of result.errors (ValidationResult.add_error)
Err(row, field, message) == [row |-> row, field |-> field, message |-> message]

NoError == Msg("", <<>>)

\* validate_integer_value: the first failing rule's message, None (NoError)
\* when no rule fails; raised when an exception leaves the function
IntegerValuePlaceholders ==
    <<<<"t","b","d">>, <<"n","/","a">>, <<"n","a">>, <<"p","e","n","d","i","n","g">>, <<"x","x","x">>, <<"t","e","s","t">>, <<"#","n","/","a">>, <<"#","r","e","f","!">>,
      <<"#","v","a","l","u","e","!">>, <<"#","d","i","v","/","0","!">>>>

\* the rules without the one about commas
IntegerValueRules_NoComma(val_str, f) ==
    IF In(Lower(val_str), IntegerValuePlaceholders)
      THEN [raised |-> "", error |-> Msg("Placeholder text not allowed", <<val_str>>)]
    ELSE IF "e" \in Range(Lower(val_str)) /\ \E i \in 1..Len(val_str) : IsDigit(val_str[i])
      THEN [raised |-> "", error |-> Msg("Scientific notation not allowed", <<val_str>>)]
    ELSE IF f.kind \in {"ValueError", "nan"}
      THEN [raised |-> "", error |-> Msg("Invalid number", <<val_str>>)]
    ELSE IF f.kind = "inf"
      THEN [raised |-> "OverflowError", error |-> NoError]
    ELSE IF f.frac
      THEN [raised |-> "", error |-> Msg("Decimal not allowed, must be integer", <<val_str>>)]
    ELSE [raised |-> "", error |-> NoError]

\* the rules of validate_integer_value on val_str, f being float(val_str)
IntegerValueRules(val_str, f) ==
    IF In(Lower(val_str), IntegerValuePlaceholders)
      THEN [raised |-> "", error |-> Msg("Placeholder text not allowed", <<val_str>>)]
    ELSE IF "," \in Range(val_str)
      THEN [raised |-> "", error |-> Msg("Remove comma formatting", <<val_str>>)]
    ELSE IF "e" \in Range(Lower(val_str)) /\ \E i \in 1..Len(val_str) : IsDigit(val_str[i])
      THEN [raised |-> "", error |-> Msg("Scientific notation not allowed", <<val_str>>)]
    ELSE IF f.kind \in {"ValueError", "nan"}
      THEN [raised |-> "", error |-> Msg("Invalid number", <<val_str>>)]
    ELSE IF f.kind = "inf"
      THEN [raised |-> "OverflowError", error |-> NoError]
    ELSE IF f.frac
      THEN [raised |-> "", error |-> Msg("Decimal not allowed, must be integer", <<val_str>>)]
    ELSE [raised |-> "", error |-> NoError]

validate_integer_value(val, field_name) == IntegerValueRules(Strip(val), ParseFloat(Strip(val)))

\* ------------------------------------------------------------------------
\* Template definitions and registries
\* ------------------------------------------------------------------------

DEFAULT_EXPECTED_YEAR == 2026

DEFAULT_EXPECTED_MONTH == <<"J","A","N">>

COVID_COLUMNS == <<
    <<"S","e","a","s","o","n">>,
    <<"M","o","n","t","h">>,
    <<"V","a","x"," ","d","a","t","e">>,
    <<"6"," ","m","o","n","t","h","s","-","2","3"," ","m","o","n","t","h","s"," ","D","O","B"," ","r","a","n","g","e">>,
    <<"6"," ","m","o","n","t","h","s","-","2","3"," ","m","o","n","t","h","s"," ","n","u","m","e","r","a","t","o","r">>,
    <<"6"," ","m","o","n","t","h","s","-","2","3"," ","m","o","n","t","h","s"," ","p","o","p","u","l","a","t","i","o","n">>,
    <<"2","-","4"," ","y","e","a","r","s"," ","D","O","B"," ","r","a","n","g","e">>,
    <<"2","-","4"," ","y","e","a","r","s"," ","n","u","m","e","r","a","t","o","r">>,
    <<"2","-","4"," ","y","e","a","r","s"," ","p","o","p","u","l","a","t","i","o","n">>,
    <<"5","-","8"," ","y","e","a","r","s"," ","D","O","B"," ","r","a","n","g","e">>,
    <<"5","-","8"," ","y","e","a","r","s"," ","n","u","m","e","r","a","t","o","r">>,
    <<"5","-","8"," ","y","e","a","r","s"," ","p","o","p","u","l","a","t","i","o","n">>,
    <<"9","-","1","2"," ","y","e","a","r","s"," ","D","O","B"," ","r","a","n","g","e">>,
    <<"9","-","1","2"," ","y","e","a","r","s"," ","n","u","m","e","r","a","t","o","r">>,
    <<"9","-","1","2"," ","y","e","a","r","s"," ","p","o","p","u","l","a","t","i","o","n">>,
    <<"1","3","-","1","7"," ","y","e","a","r","s"," ","D","O","B"," ","r","a","n","g","e">>,
    <<"1","3","-","1","7"," ","y","e","a","r","s"," ","n","u","m","e","r","a","t","o","r">>,
    <<"1","3","-","1","7"," ","y","e","a","r","s"," ","p","o","p","u","l","a","t","i","o","n">>,
    <<"1","8","-","4","9"," ","y","e","a","r","s"," ","D","O","B"," ","r","a","n","g","e">>,
    <<"1","8","-","4","9"," ","y","e","a","r","s"," ","n","u","m","e","r","a","t","o","r">>,
    <<"1","8","-","4","9"," ","y","e","a","r","s"," ","p","o","p","u","l","a","t","i","o","n">>,
    <<"5","0","-","6","4"," ","y","e","a","r","s"," ","D","O","B"," ","r","a","n","g","e"," ">>,
    <<"5","0","-","6","4"," ","y","e","a","r","s"," ","n","u","m","e","r","a","t","o","r">>,
    <<"5","0","-","6","4"," ","y","e","a","r","s"," ","p","o","p","u","l","a","t","i","o","n">>,
    <<"6","5","+"," ","y","e","a","r","s"," ","D","O","B"," ","r","a","n","g","e"," ">>,
    <<"6","5","+"," ","y","e","a","r","s"," ","n","u","m","e","r","a","t","o","r">>,
    <<"6","5","+"," ","y","e","a","r","s"," ","p","o","p","u","l","a","t","i","o","n">>,
    <<"6"," ","m","o","n","t","h","s"," ","t","o"," ","1","7"," ","y","e","a","r","s"," ","D","O","B"," ","r","a","n","g","e">>,
    <<"6"," ","m","o","n","t","h","s"," ","t","o"," ","1","7"," ","y","e","a","r","s"," ","n","u","m","e","r","a","t","o","r">>,
    <<"6"," ","m","o","n","t","h","s"," ","t","o"," ","1","7"," ","y","e","a","r","s"," ","p","o","p","u","l","a","t","i","o","n">>,
    <<"O","v","e","r","a","l","l"," ","(","a","l","l"," ","a","g","e","s",")"," ","D","O","B"," ","r","a","n","g","e">>,
    <<"O","v","e","r","a","l","l"," ","n","u","m","e","r","a","t","o","r"," ","(","a","l","l"," ","a","g","e","s",")">>,
    <<"O","v","e","r","a","l","l"," ","(","a","l","l"," ","a","g","e","s",")"," ","p","o","p","u","l","a","t","i","o","n">>,
    <<"A","l","l"," ","a","d","u","l","t","s"," ","(","+","1","8",")"," "," ","D","O","B"," ","r","a","n","g","e"," ">>,
    <<"A","l","l"," ","a","d","u","l","t","s"," ","n","u","m","e","r","a","t","o","r"," ","(","+","1","8",")">>,
    <<"A","l","l"," ","a","d","u","l","t","s"," ","(","+","1","8",")"," ","p","o","p","u","l","a","t","i","o","n">>,
    <<"R","e","p","o","r","t"," ","D","u","e"," ","D","a","t","e"," ">> >>

FLU_COLUMNS == <<
    <<"F","l","u"," ","S","e","a","s","o","n">>,
    <<"M","o","n","t","h">>,
    <<"V","a","x"," ","d","a","t","e">>,
    <<"6"," ","m","o","n","t","h","s","-","2","3"," ","m","o","n","t","h","s"," "," ","D","O","B"," ","r","a","n","g","e">>,
    <<"6"," ","m","o","n","t","h","s","-","2","3"," ","m","o","n","t","h","s"," ","n","u","m","e","r","a","t","o","r">>,
    <<"6"," ","m","o","n","t","h","s","-","2","3"," ","m","o","n","t","h","s"," ","p","o","p","u","l","a","t","i","o","n">>,
    <<"2","-","4"," ","y","e","a","r","s"," ","D","O","B"," ","r","a","n","g","e">>,
    <<"2","-","4"," ","y","e","a","r","s"," ","n","u","m","e","r","a","t","o","r">>,
    <<"2","-","4"," ","y","e","a","r","s"," ","p","o","p","u","l","a","t","i","o","n">>,
    <<"5","-","8"," ","y","e","a","r","s"," ","D","O","B"," ","r","a","n","g","e">>,
    <<"5","-","8"," ","y","e","a","r","s"," ","n","u","m","e","r","a","t","o","r">>,
    <<"5","-","8"," ","y","e","a","r","s"," ","p","o","p","u","l","a","t","i","o","n">>,
    <<"9","-","1","2"," ","y","e","a","r","s"," ","D","O","B"," ","r","a","n","g","e">>,
    <<"9","-","1","2"," ","y","e","a","r","s"," ","n","u","m","e","r","a","t","o","r">>,
    <<"9","-","1","2"," ","y","e","a","r","s"," ","p","o","p","u","l","a","t","i","o","n">>,
    <<"1","3","-","1","7"," ","y","e","a","r","s"," ","D","O","B"," ","r","a","n","g","e">>,
    <<"1","3","-","1","7"," ","y","e","a","r","s"," ","n","u","m","e","r","a","t","o","r">>,
    <<"1","3","-","1","7"," ","y","e","a","r","s"," ","p","o","p","u","l","a","t","i","o","n">>,
    <<"1","8","-","4","9"," ","y","e","a","r","s"," ","D","O","B"," ","r","a","n","g","e">>,
    <<"1","8","-","4","9"," ","y","e","a","r","s"," ","n","u","m","e","r","a","t","o","r">>,
    <<"1","8","-","4","9"," ","y","e","a","r","s"," ","p","o","p","u","l","a","t","i","o","n">>,
    <<"5","0","-","6","4"," ","y","e","a","r","s"," ","D","O","B"," ","r","a","n","g","e"," ">>,
    <<"5","0","-","6","4"," ","y","e","a","r","s"," ","n","u","m","e","r","a","t","o","r">>,
    <<"5","0","-","6","4"," ","y","e","a","r","s"," ","p","o","p","u","l","a","t","i","o","n">>,
    <<"6","5","+"," ","y","e","a","r","s"," ","D","O","B"," ","r","a","n","g","e"," ">>,
    <<"6","5","+"," ","y","e","a","r","s"," ","n","u","m","e","r","a","t","o","r">>,
    <<"6","5","+"," ","y","e","a","r","s"," ","p","o","p","u","l","a","t","i","o","n">>,
    <<"6"," ","m","o","n","t","h","s"," ","t","o"," ","1","7"," ","y","e","a","r","s"," ","D","O","B"," ","r","a","n","g","e">>,
    <<"6"," ","m","o","n","t","h","s"," ","t","o"," ","1","7"," ","y","e","a","r","s"," ","n","u","m","e","r","a","t","o","r">>,
    <<"6"," ","m","o","n","t","h","s"," ","t","o"," ","1","7"," ","y","e","a","r","s"," ","p","o","p","u","l","a","t","i","o","n">>,
    <<"A","l","l"," ","a","d","u","l","t","s"," ","(","+","1","8",")"," "," ","D","O","B"," ","r","a","n","g","e"," ">>,
    <<"A","l","l"," ","a","d","u","l","t","s"," ","n","u","m","e","r","a","t","o","r"," ","(","+","1","8",")">>,
    <<"A","l","l"," ","a","d","u","l","t","s"," ","(","+","1","8",")"," ","p","o","p","u","l","a","t","i","o","n">>,
    <<"O","v","e","r","a","l","l"," ","(","a","l","l"," ","a","g","e","s",")"," ","D","O","B"," ","r","a","n","g","e">>,
    <<"O","v","e","r","a","l","l"," ","n","u","m","e","r","a","t","o","r"," ","(","a","l","l"," ","a","g","e","s",")">>,
    <<"O","v","e","r","a","l","l"," ","(","a","l","l"," ","a","g","e","s",")"," ","p","o","p","u","l","a","t","i","o","n">>,
    <<"R","e","p","o","r","t"," ","D","u","e"," ","D","a","t","e"," ">> >>

RSV_COLUMNS == <<
    <<"R","S","V"," ","S","e","a","s","o","n">>,
    <<"M","o","n","t","h">>,
    <<"v","a","x","_","d","a","t","e","_","0","-","7"," ","m","o","n","t","h","s">>,
    <<"v","a","x","_","d","a","t","e","_","8","-","1","9"," ","m","o","n","t","h","s">>,
    <<"v","a","x","_","d","a","t","e","_","6","0","+"," ","y","e","a","r","s">>,
    <<"0"," ","m","o","n","t","h","s","-","7"," ","m","o","n","t","h","s"," ","D","O","B"," ","r","a","n","g","e">>,
    <<"0"," ","m","o","n","t","h","s","-","7"," ","m","o","n","t","h","s"," ","n","u","m","e","r","a","t","o","r">>,
    <<"0"," ","m","o","n","t","h","s","-","7"," ","m","o","n","t","h","s"," ","p","o","p","u","l","a","t","i","o","n">>,
    <<"8"," ","m","o","n","t","h","s","-","1","9"," ","m","o","n","t","h","s"," ","D","O","B"," ","r","a","n","g","e">>,
    <<"8"," ","m","o","n","t","h","s","-","1","9"," ","m","o","n","t","h","s"," ","n","u","m","e","r","a","t","o","r">>,
    <<"8"," ","m","o","n","t","h","s","-","1","9"," ","m","o","n","t","h","s"," ","p","o","p","u","l","a","t","i","o","n">>,
    <<"5","0","-","5","9"," ","y","e","a","r","s"," ","D","O","B"," ","r","a","n","g","e"," ">>,
    <<"5","0","-","5","9"," ","y","e","a","r","s"," ","n","u","m","e","r","a","t","o","r">>,
    <<"5","0","-","5","9"," ","y","e","a","r","s"," ","p","o","p","u","l","a","t","i","o","n">>,
    <<"6","0","-","7","4"," ","y","e","a","r","s"," ","D","O","B"," ","r","a","n","g","e"," ">>,
    <<"6","0","-","7","4"," ","y","e","a","r","s"," ","n","u","m","e","r","a","t","o","r">>,
    <<"6","0","-","7","4"," ","y","e","a","r","s"," ","p","o","p","u","l","a","t","i","o","n">>,
    <<"7","5","+"," ","y","e","a","r","s"," ","D","O","B"," ","r","a","n","g","e"," ">>,
    <<"7","5","+"," ","y","e","a","r","s"," ","n","u","m","e","r","a","t","o","r">>,
    <<"7","5","+"," ","y","e","a","r","s"," ","p","o","p","u","l","a","t","i","o","n">>,
    <<"6","0","+"," ","y","e","a","r","s"," ","D","O","B"," ","r","a","n","g","e"," ">>,
    <<"6","0","+"," ","y","e","a","r","s"," ","n","u","m","e","r","a","t","o","r">>,
    <<"6","0","+"," ","y","e","a","r","s"," ","p","o","p","u","l","a","t","i","o","n">>,
    <<"R","e","p","o","r","t"," ","D","u","e"," ","D","a","t","e"," ">> >>

VALID_MONTHS == <<
    <<"J","u","l">>,
    <<"A","u","g">>,
    <<"S","e","p","t">>,
    <<"O","c","t">>,
    <<"N","o","v">>,
    <<"D","e","c">>,
    <<"J","a","n">>,
    <<"F","e","b">>,
    <<"M","a","r">>,
    <<"A","p","r">>,
    <<"M","a","y">>,
    <<"J","u","n">> >>

\* the keys of VALID_SITE_CODES, in the dict's (insertion) order
VALID_SITE_CODES == <<
    <<"A","K","A">>,
    <<"A","L","A">>,
    <<"A","R","A">>,
    <<"A","S","A">>,
    <<"A","Z","A">>,
    <<"B","A","A">>,
    <<"C","A","A">>,
    <<"C","H","A">>,
    <<"C","O","A">>,
    <<"C","T","A">>,
    <<"D","C","A">>,
    <<"D","E","A">>,
    <<"F","L","A">>,
    <<"F","M","A">>,
    <<"G","A","A">>,
    <<"G","U","A">>,
    <<"H","I","A">>,
    <<"I","A","A">>,
    <<"I","D","A">>,
    <<"I","L","A">>,
    <<"I","N","A">>,
    <<"K","S","A">>,
    <<"K","Y","A">>,
    <<"L","A","A">>,
    <<"M","A","A">>,
    <<"M","D","A">>,
    <<"M","E","A">>,
    <<"M","H","A">>,
    <<"M","I","A">>,
    <<"M","N","A">>,
    <<"M","O","A">>,
    <<"M","P","A">>,
    <<"M","S","A">>,
    <<"M","T","A">>,
    <<"N","C","A">>,
    <<"N","D","A">>,
    <<"N","E","A">>,
    <<"N","H","A">>,
    <<"N","J","A">>,
    <<"N","M","A">>,
    <<"N","V","A">>,
    <<"N","Y","A">>,
    <<"O","H","A">>,
    <<"O","K","A">>,
    <<"O","R","A">>,
    <<"P","A","A">>,
    <<"P","H","A">>,
    <<"P","R","A">>,
    <<"R","I","A">>,
    <<"R","P","A">>,
    <<"S","C","A">>,
    <<"S","D","A">>,
    <<"T","B","A">>,
    <<"T","H","A">>,
    <<"T","N","A">>,
    <<"T","X","A">>,
    <<"U","T","A">>,
    <<"V","A","A">>,
    <<"V","I","A">>,
    <<"V","T","A">>,
    <<"W","A","A">>,
    <<"W","I","A">>,
    <<"W","V","A">>,
    <<"W","Y","A">> >>

FILENAME_MONTHS == <<
    <<"J","A","N">>,
    <<"F","E","B">>,
    <<"M","A","R">>,
    <<"A","P","R">>,
    <<"M","A","Y">>,
    <<"J","U","N">>,
    <<"J","U","L">>,
    <<"A","U","G">>,
    <<"S","E","P">>,
    <<"O","C","T">>,
    <<"N","O","V">>,
    <<"D","E","C">> >>

\* MONTH_MAP as a sequence of <<filename month, data month>>
MONTH_MAP == <<
    <<<<"J","A","N">>, <<"J","a","n">>>>,
    <<<<"F","E","B">>, <<"F","e","b">>>>,
    <<<<"M","A","R">>, <<"M","a","r">>>>,
    <<<<"A","P","R">>, <<"A","p","r">>>>,
    <<<<"M","A","Y">>, <<"M","a","y">>>>,
    <<<<"J","U","N">>, <<"J","u","n">>>>,
    <<<<"J","U","L">>, <<"J","u","l">>>>,
    <<<<"A","U","G">>, <<"A","u","g">>>>,
    <<<<"S","E","P">>, <<"S","e","p","t">>>>,
    <<<<"O","C","T">>, <<"O","c","t">>>>,
    <<<<"N","O","V">>, <<"N","o","v">>>>,
    <<<<"D","E","C">>, <<"D","e","c">>>> >>

\* dict.get(key, default) on a sequence of <<key, value>> pairs
DictGet(pairs, key, default) ==
    IF \E i \in 1..Len(pairs) : pairs[i][1] = key
    THEN pairs[CHOOSE i \in 1..Len(pairs) : pairs[i][1] = key][2]
    ELSE default

ReportTypes == {"COVID", "FLU", "RSV"}

\* report_type None
NoType == "None"

\* ------------------------------------------------------------------------
\* The DataFrame read from the file
\* ------------------------------------------------------------------------

\* df.columns is a sequence of texts, df.rows a sequence of rows, a row a
\* sequence of cells in column order; the index is 0..len(df)-1, so the
\* row at position i (from 1) has idx = i - 1.
HasColumn(df, col) == In(col, df.columns)

ColumnIndex(df, col) == Min({i \in 1..Len(df.columns) : df.columns[i] = col})

\* row[col]
Cell(df, i, col) == df.rows[i][ColumnIndex(df, col)]

NRows(df) == Len(df.rows)

\* df.empty: no row or no column
IsEmpty(df) == Len(df.rows) = 0 \/ Len(df.columns) = 0

\* ------------------------------------------------------------------------
\* Template detection
\* ------------------------------------------------------------------------

\* a detection that looks for the Flu column before the RSV markers
detect_template_type_FluFirst(df) ==
    LET columns == [i \in 1..Len(df.columns) |-> Strip(df.columns[i])]
    IN  IF In(<<"F","l","u"," ","S","e","a","s","o","n">>, columns) THEN "FLU"
        ELSE IF In(<<"R","S","V"," ","S","e","a","s","o","n">>, columns) \/ In(<<"v","a","x","_","d","a","t","e","_","0","-","7"," ","m","o","n","t","h","s">>, columns) THEN "RSV"
        ELSE IF In(<<"S","e","a","s","o","n">>, columns) THEN "COVID"
        ELSE NoType

detect_template_type(df) ==
    LET columns == [i \in 1..Len(df.columns) |-> Strip(df.columns[i])]
    IN  IF In(<<"R","S","V"," ","S","e","a","s","o","n">>, columns) \/ In(<<"v","a","x","_","d","a","t","e","_","0","-","7"," ","m","o","n","t","h","s">>, columns) THEN "RSV"
        ELSE IF In(<<"F","l","u"," ","S","e","a","s","o","n">>, columns) THEN "FLU"
        ELSE IF In(<<"S","e","a","s","o","n">>, columns) /\ ~In(<<"F","l","u"," ","S","e","a","s","o","n">>, columns) THEN "COVID"
        ELSE NoType

get_expected_columns(report_type) ==
    CASE report_type = "COVID" -> COVID_COLUMNS
      [] report_type = "FLU"   -> FLU_COLUMNS
      [] report_type = "RSV"   -> RSV_COLUMNS
      [] OTHER                 -> <<>>

\* ------------------------------------------------------------------------
\* Filename validation
\* ------------------------------------------------------------------------

\* _get_filename_prefix: prefixes.get(report_type, 'MonthlyAllCOVID')
FilenamePrefix(report_type) ==
    CASE report_type = "COVID" -> <<"M","o","n","t","h","l","y","A","l","l","C","O","V","I","D">>
      [] report_type = "FLU"   -> <<"M","o","n","t","h","l","y","F","l","u">>
      [] report_type = "RSV"   -> <<"M","o","n","t","h","l","y","R","S","V">>
      [] OTHER                 -> <<"M","o","n","t","h","l","y","A","l","l","C","O","V","I","D">>

\* re.match(r'^<prefix>_([A-Z]{3})_(\d{4})([A-Z]{3})$', name, re.IGNORECASE)
\* for ASCII names without a line break
MatchesPattern(name, prefix) ==
    LET n == Len(prefix)
    IN  /\ Len(name) = n + 12
        /\ Upper(SubSeq(name, 1, n)) = Upper(prefix)
        /\ name[n + 1] = "_"
        /\ \A i \in (n + 2)..(n + 4) : IsAlpha(name[i])
        /\ name[n + 5] = "_"
        /\ \A i \in (n + 6)..(n + 9) : IsDigit(name[i])
        /\ \A i \in (n + 10)..(n + 12) : IsAlpha(name[i])

\* match.groups() of a name that matches the pattern of prefix
MatchGroups(name, prefix) ==
    LET n == Len(prefix)
    IN  [site_code |-> SubSeq(name, n + 2, n + 4),
         year      |-> SubSeq(name, n + 6, n + 9),
         month     |-> SubSeq(name, n + 10, n + 12)]

\* the first element of a list of <<probe, message>> pairs whose probe
\* satisfies Test, as a list of at most one message ("for ...: if ...: break")
RECURSIVE FirstPrefixIssue(_, _)
FirstPrefixIssue(name_upper, pairs) ==
    IF pairs = <<>> THEN <<>>
    ELSE IF StartsWith(name_upper, Head(pairs)[1]) THEN <<Head(pairs)[2]>>
    ELSE FirstPrefixIssue(name_upper, Tail(pairs))

WrongPrefixes ==
    << <<<<"C","O","V","I","D","_">>,         "Should start with MonthlyAllCOVID_">>,
       <<<<"M","O","N","T","H","L","Y","C","O","V","I","D","_">>,  "Should be MonthlyAllCOVID_ (note the All)">>,
       <<<<"M","O","N","T","H","L","Y","_","C","O","V","I","D","_">>, "Should be MonthlyAllCOVID_ (no space/underscore)">>,
       <<<<"F","L","U","_">>,           "Should start with MonthlyFlu_">>,
       <<<<"M","O","N","T","H","L","Y","F","L","U","_">>,    "Use MonthlyFlu_ (check capitalization)">>,
       <<<<"R","S","V","_">>,           "Should start with MonthlyRSV_">>,
       <<<<"M","O","N","T","H","L","Y","R","S","V","_">>,    "Use MonthlyRSV_ (check capitalization)">> >>

UnwantedMarkers ==
    <<<<"D","R","A","F","T">>, <<"F","I","N","A","L">>, <<"C","O","P","Y">>, <<"(","1",")">>, <<"(","2",")">>, <<"_","V","2">>, <<"_","V","3">>, <<"_","N","E","W">>, <<"_","O","L","D">>,
      <<"R","E","V","I","S","E","D">>, <<"U","P","D","A","T","E","D">>>>

WrongMonths ==
    << <<<<"S","E","P","T">>,     "Use SEP not SEPT for September">>,
       <<<<"J","U","N","E">>,     "Use JUN not JUNE for June">>,
       <<<<"J","U","L","Y">>,     "Use JUL not JULY for July">>,
       <<<<"J","A","N","U","A","R","Y">>,  "Use JAN not JANUARY">>,
       <<<<"F","E","B","R","U","A","R","Y">>, "Use FEB not FEBRUARY">> >>

\* re.search(r'_([A-Z]{2})_', name_upper): the start positions of its matches
TwoLetterHits(name_upper) ==
    {i \in 1..(Len(name_upper) - 3) :
        /\ name_upper[i] = "_"
        /\ IsUpperChar(name_upper[i + 1])
        /\ IsUpperChar(name_upper[i + 2])
        /\ name_upper[i + 3] = "_"}

\* the check of the leftmost match's group(1), state
TwoLetterIssue(state) ==
    IF In(state \o <<"A">>, VALID_SITE_CODES)
    THEN <<Msg("Use 3-letter IIS code instead of 2-letter", <<state \o <<"A">>, state>>)>>
    ELSE <<>>

TwoLetterCheck(name_upper, hits) ==
    IF hits = {} THEN <<>>
    ELSE TwoLetterIssue(SubSeq(name_upper, Min(hits) + 1, Min(hits) + 2))

PrefixIssue(hit) == IF hit = <<>> THEN <<>> ELSE <<Msg(hit[1], <<>>)>>

FilenameIssues(filename, name_upper) ==
    (IF " " \in Range(filename) THEN <<Msg("Filename contains spaces", <<>>)>> ELSE <<>>)
    \o (IF "-" \in Range(filename) /\ "_" \notin Range(filename)
        THEN <<Msg("Use underscores not dashes", <<>>)>> ELSE <<>>)
    \o PrefixIssue(FirstPrefixIssue(name_upper, WrongPrefixes))
    \o Flatten([i \in 1..Len(UnwantedMarkers) |->
                   IF Contains(name_upper, UnwantedMarkers[i])
                   THEN <<Msg("Remove version marker", <<UnwantedMarkers[i]>>)>>
                   ELSE <<>>])
    \o Flatten([i \in 1..Len(WrongMonths) |->
                   IF /\ Contains(name_upper, WrongMonths[i][1])
                      /\ ~Contains(name_upper, WrongMonths[i][1] \o <<"E">>)
                   THEN <<Msg(WrongMonths[i][2], <<>>)>>
                   ELSE <<>>])
    \o TwoLetterCheck(name_upper, TwoLetterHits(name_upper))

\* _detect_filename_issues: the list of issues, in the order they are appended
detect_filename_issues(filename) == FilenameIssues(filename, Upper(filename))

\* state_to_site of _suggest_filename, in the dict's order
StateToSite ==
    << <<<<"G","A">>, <<"G","A","A">>>>, <<<<"N","Y">>, <<"N","Y","A">>>>, <<<<"C","A">>, <<"C","A","A">>>>, <<<<"T","X">>, <<"T","X","A">>>>, <<<<"F","L">>, <<"F","L","A">>>>,
       <<<<"N","C">>, <<"N","C","A">>>>, <<<<"P","A">>, <<"P","A","A">>>>, <<<<"I","L">>, <<"I","L","A">>>>, <<<<"O","H">>, <<"O","H","A">>>>, <<<<"M","I">>, <<"M","I","A">>>>,
       <<<<"A","K">>, <<"A","K","A">>>>, <<<<"A","L">>, <<"A","L","A">>>>, <<<<"A","R">>, <<"A","R","A">>>>, <<<<"A","Z">>, <<"A","Z","A">>>>, <<<<"C","O">>, <<"C","O","A">>>>,
       <<<<"C","T">>, <<"C","T","A">>>>, <<<<"D","E">>, <<"D","E","A">>>>, <<<<"H","I">>, <<"H","I","A">>>>, <<<<"I","A">>, <<"I","A","A">>>>, <<<<"I","D">>, <<"I","D","A">>>>,
       <<<<"I","N">>, <<"I","N","A">>>>, <<<<"K","S">>, <<"K","S","A">>>>, <<<<"K","Y">>, <<"K","Y","A">>>>, <<<<"L","A">>, <<"L","A","A">>>>, <<<<"M","A">>, <<"M","A","A">>>>,
       <<<<"M","D">>, <<"M","D","A">>>>, <<<<"M","E">>, <<"M","E","A">>>>, <<<<"M","N">>, <<"M","N","A">>>>, <<<<"M","O">>, <<"M","O","A">>>>, <<<<"M","S">>, <<"M","S","A">>>>,
       <<<<"M","T">>, <<"M","T","A">>>>, <<<<"N","E">>, <<"N","E","A">>>>, <<<<"N","H">>, <<"N","H","A">>>>, <<<<"N","J">>, <<"N","J","A">>>>, <<<<"N","M">>, <<"N","M","A">>>>,
       <<<<"N","V">>, <<"N","V","A">>>>, <<<<"O","K">>, <<"O","K","A">>>>, <<<<"O","R">>, <<"O","R","A">>>>, <<<<"R","I">>, <<"R","I","A">>>>, <<<<"S","C">>, <<"S","C","A">>>>,
       <<<<"S","D">>, <<"S","D","A">>>>, <<<<"T","N">>, <<"T","N","A">>>>, <<<<"U","T">>, <<"U","T","A">>>>, <<<<"V","A">>, <<"V","A","A">>>>, <<<<"V","T">>, <<"V","T","A">>>>,
       <<<<"W","A">>, <<"W","A","A">>>>, <<<<"W","I">>, <<"W","I","A">>>>, <<<<"W","V">>, <<"W","V","A">>>>, <<<<"W","Y">>, <<"W","Y","A">>>> >>

\* the state abbreviation is looked for as _XX_, a leading XX_ or _XX.
StateHit(upper_name, state) ==
    \/ Contains(upper_name, <<"_">> \o state \o <<"_">>)
    \/ StartsWith(upper_name, state \o <<"_">>)
    \/ Contains(upper_name, <<"_">> \o state \o <<".">>)

\* the first valid site code found in the name, else the site of the first
\* state abbreviation found, else XXX
SuggestedSite(sites, codes, states) ==
    IF codes # {} THEN sites[Min(codes)]
    ELSE IF states # {} THEN StateToSite[Min(states)][2]
    ELSE <<"X","X","X">>

SiteInName(upper_name, sites) ==
    SuggestedSite(sites,
                  {i \in 1..Len(sites) : Contains(upper_name, sites[i])},
                  {i \in 1..Len(StateToSite) : StateHit(upper_name, StateToSite[i][1])})

\* _suggest_filename
suggest_filename(original_filename, detected_type, expected_year, expected_month) ==
    FilenamePrefix(detected_type) \o <<"_">>
        \o SiteInName(Upper(original_filename), VALID_SITE_CODES) \o <<"_">>
        \o IntToStr(expected_year) \o expected_month \o <<".","c","s","v">>

\* the type whose pattern the name matches (the patterns are tried in the
\* order COVID, FLU, RSV), NoType when it matches none
PatternType(name) ==
    IF MatchesPattern(name, <<"M","o","n","t","h","l","y","A","l","l","C","O","V","I","D">>) THEN "COVID"
    ELSE IF MatchesPattern(name, <<"M","o","n","t","h","l","y","F","l","u">>) THEN "FLU"
    ELSE IF MatchesPattern(name, <<"M","o","n","t","h","l","y","R","S","V">>) THEN "RSV"
    ELSE NoType

\* a suggestion that keeps the default period instead of the configured one
RenameTo_DefaultPeriod(type, site_code, config) ==
    FilenamePrefix(type) \o <<"_">> \o site_code \o <<"_">>
        \o IntToStr(DEFAULT_EXPECTED_YEAR) \o DEFAULT_EXPECTED_MONTH \o <<".","c","s","v">>

\* f'{prefix}_{site_code}_{expected_year}{expected_month}.csv'
RenameTo(type, site_code, config) ==
    FilenamePrefix(type) \o <<"_">> \o site_code \o <<"_">>
        \o IntToStr(config.expected_year) \o config.expected_month \o <<".","c","s","v">>

\* [str(m).strip() for m in df['Month'].tolist() if pd.notna(m)]
StripAll(cells) == [i \in 1..Len(cells) |-> Strip(cells[i])]

DropNa(cells) == SelectIdx(cells, {i \in 1..Len(cells) : NotNa(cells[i])}, 1)

Column(df, col) == [i \in 1..NRows(df) |-> Cell(df, i, col)]

\* the check of the filename's month against the data's Month column
MonthInDataError(month, data_month, months_in_data) ==
    IF ~In(data_month, months_in_data)
    THEN <<Err(0, <<"f","i","l","e","n","a","m","e">>, Msg("Month in filename not found in data",
                <<month, SubSeq(months_in_data, 1, Min({3, Len(months_in_data)}))>>))>>
    ELSE <<>>

\* the checks of a name that matches a pattern, on match.groups()
MatchedChecks(report_type, df, config, detected_type, site_code, year, month) ==
    (IF ~In(site_code, VALID_SITE_CODES)
     THEN <<Err(0, <<"f","i","l","e","n","a","m","e">>, Msg("Invalid site code", <<site_code>>))>>
     ELSE <<>>)
    \o (IF report_type # NoType /\ detected_type # report_type
        THEN <<Err(0, <<"f","i","l","e","n","a","m","e">>, Msg("Filename says one type but data looks like another",
                    <<detected_type, report_type, RenameTo(report_type, site_code, config)>>))>>
        ELSE <<>>)
    \o (IF StrToNat(year) < 2020 \/ StrToNat(year) > 2030
        THEN <<Err(0, <<"f","i","l","e","n","a","m","e">>, Msg("Year in filename seems invalid", <<year>>))>>
        ELSE <<>>)
    \o (IF ~In(month, FILENAME_MONTHS)
        THEN <<Err(0, <<"f","i","l","e","n","a","m","e">>, Msg("Invalid month", <<month>>))>>
        ELSE (IF year # IntToStr(config.expected_year) \/ month # config.expected_month
              THEN <<Err(0, <<"f","i","l","e","n","a","m","e">>, Msg("Wrong submission period",
                          <<year, month, config.expected_year, config.expected_month,
                            RenameTo(detected_type, site_code, config)>>))>>
              ELSE <<>>)
             \o (IF HasColumn(df, <<"M","o","n","t","h">>)
                 THEN MonthInDataError(month, DictGet(MONTH_MAP, month, month),
                                       StripAll(DropNa(Column(df, <<"M","o","n","t","h">>))))
                 ELSE <<>>))

MatchedName(report_type, df, config, detected_type, groups) ==
    MatchedChecks(report_type, df, config, detected_type,
                  Upper(groups.site_code), groups.year, Upper(groups.month))

FilenameChecks(filename, report_type, df, config, name, detected_type) ==
    IF detected_type = NoType
    THEN <<Err(0, <<"f","i","l","e","n","a","m","e">>, Msg("Incorrect filename format",
                <<filename, detect_filename_issues(filename), config.expected_year,
                  config.expected_month,
                  suggest_filename(filename, report_type, config.expected_year,
                                   config.expected_month)>>))>>
    ELSE MatchedName(report_type, df, config, detected_type,
                     MatchGroups(name, FilenamePrefix(detected_type)))

StripExtension(filename) == Replace(Replace(filename, <<".","c","s","v">>, <<>>), <<".","C","S","V">>, <<>>)

\* validate_filename: the errors it adds, in order.  config is what its
\* load_config() call returned.
validate_filename(filename, report_type, df, config) ==
    FilenameChecks(filename, report_type, df, config, StripExtension(filename),
                   PatternType(StripExtension(filename)))

\* ------------------------------------------------------------------------
\* Structure validation
\* ------------------------------------------------------------------------

OldColumns(report_type) ==
    CASE report_type = "COVID" -> <<<<"C","O","V","I","D"," ","S","e","a","s","o","n">>, <<"6"," ","m","o","n","t","h","s","-","4"," ","y","e","a","r","s"," ","n","u","m","e","r","a","t","o","r">>,
                                    <<"5","-","1","1"," ","y","e","a","r","s"," ","n","u","m","e","r","a","t","o","r">>, <<"1","2","-","1","7"," ","y","e","a","r","s"," ","n","u","m","e","r","a","t","o","r">>>>
      [] report_type = "FLU"   -> <<<<"S","e","a","s","o","n">>, <<"6"," ","m","o","n","t","h","s","-","4"," ","y","e","a","r","s"," ","n","u","m","e","r","a","t","o","r">>>>
      [] report_type = "RSV"   -> <<<<"6","0","-","6","4"," ","y","e","a","r","s"," ","n","u","m","e","r","a","t","o","r">>, <<"6","5","-","7","4"," ","y","e","a","r","s"," ","n","u","m","e","r","a","t","o","r">>>>
      [] OTHER                 -> <<>>

FirstOldColumn(old, hits) == IF hits = {} THEN <<>> ELSE old[Min(hits)]

OldColumnHits(old, cols_lower) == {i \in 1..Len(old) : In(Lower(old[i]), cols_lower)}

OldColumnIn(old, cols_lower) == FirstOldColumn(old, OldColumnHits(old, cols_lower))

\* a detection that looks for the old names as they are written
detect_old_template_Exact(columns, report_type) ==
    OldColumnIn(OldColumns(report_type), columns)

\* detect_old_template: the first old column found, <<>> (None) when none is
detect_old_template(columns, report_type) ==
    OldColumnIn(OldColumns(report_type),
                [i \in 1..Len(columns) |-> Strip(Lower(columns[i]))])

\* sum(1 for a, b in zip(x, y) if a == b)
ZipMatches(x, y) == Cardinality({i \in 1..Min({Len(x), Len(y)}) : x[i] = y[i]})

\* the three rules of find_close_match on one candidate;
\* matches / max_len >= 0.8 is 5 * matches >= 4 * max_len
IsCloseMatch(target_lower, candidate_lower) ==
    \/ Replace(target_lower, <<" ">>, <<>>) = Replace(candidate_lower, <<" ">>, <<>>)
    \/ /\ Len(target_lower) > 5
       /\ Len(candidate_lower) > 5
       /\ 5 * ZipMatches(target_lower, candidate_lower)
            >= 4 * Max({Len(target_lower), Len(candidate_lower)})
    \/ /\ Len(target_lower) > 10
       /\ Len(candidate_lower) > 10
       /\ (Contains(candidate_lower, target_lower) \/ Contains(target_lower, candidate_lower))

\* the loop without the return on a candidate equal to the target
RECURSIVE CloseMatchFrom_NoExactCheck(_, _, _, _)
CloseMatchFrom_NoExactCheck(target_lower, candidates, candidates_lower, k) ==
    IF k > Len(candidates) THEN <<>>
    ELSE IF IsCloseMatch(target_lower, candidates_lower[k]) THEN candidates[k]
    ELSE CloseMatchFrom_NoExactCheck(target_lower, candidates, candidates_lower, k + 1)

\* the loop of find_close_match from candidate k on: the candidates are
\* tried in order and each against all three rules before the next one; an
\* exact (lowercased, stripped) match of a candidate returns None at once.
\* <<>> stands for None.
RECURSIVE CloseMatchFrom(_, _, _, _)
CloseMatchFrom(target_lower, candidates, candidates_lower, k) ==
    IF k > Len(candidates) THEN <<>>
    ELSE IF target_lower = candidates_lower[k] THEN <<>>
    ELSE IF IsCloseMatch(target_lower, candidates_lower[k]) THEN candidates[k]
    ELSE CloseMatchFrom(target_lower, candidates, candidates_lower, k + 1)

\* find_close_match(target, candidates, threshold=0.8)
find_close_match(target, candidates) ==
    CloseMatchFrom(Strip(Lower(target)), candidates,
                   [k \in 1..Len(candidates) |-> Strip(Lower(candidates[k]))], 1)

\* df.isna().all(axis=1) at row i
IsBlankRow(df, i) == \A c \in 1..Len(df.columns) : df.rows[i][c] = NA

MissingColumn(expected, close_match) ==
    IF close_match # <<>>
    THEN <<Err(0, <<"s","t","r","u","c","t","u","r","e">>, Msg("Column typo?", <<close_match, expected>>))>>
    ELSE <<Err(0, <<"s","t","r","u","c","t","u","r","e">>, Msg("Missing column", <<expected>>))>>

ExtraColumn(actual, close_match) ==
    IF close_match # <<>>
    THEN <<Err(0, <<"s","t","r","u","c","t","u","r","e">>, Msg("Unexpected column - did you mean", <<actual, close_match>>))>>
    ELSE <<Err(0, <<"s","t","r","u","c","t","u","r","e">>, Msg("Unexpected column", <<actual>>))>>

\* the checks of validate_structure after the old-template check
StructureChecks(df, actual_cols_stripped, expected_cols_stripped) ==
    (IF Len(actual_cols_stripped) # Len(expected_cols_stripped)
     THEN <<Err(0, <<"s","t","r","u","c","t","u","r","e">>, Msg("Column count mismatch",
                 <<Len(expected_cols_stripped), Len(actual_cols_stripped)>>))>>
     ELSE <<>>)
    \o Flatten([i \in 1..Len(expected_cols_stripped) |->
          IF In(expected_cols_stripped[i], actual_cols_stripped) THEN <<>>
          ELSE MissingColumn(expected_cols_stripped[i],
                             find_close_match(expected_cols_stripped[i], actual_cols_stripped))])
    \o Flatten([i \in 1..Len(actual_cols_stripped) |->
          IF In(actual_cols_stripped[i], expected_cols_stripped) THEN <<>>
          ELSE IF StartsWith(actual_cols_stripped[i], <<"U","n","n","a","m","e","d",":">>) \/ actual_cols_stripped[i] = <<>>
            THEN <<Err(0, <<"s","t","r","u","c","t","u","r","e">>, Msg("Extra blank column detected", <<>>))>>
          ELSE ExtraColumn(actual_cols_stripped[i],
                           find_close_match(actual_cols_stripped[i], expected_cols_stripped))])
    \o Flatten([i \in 1..NRows(df) |->
          IF IsBlankRow(df, i)
          THEN <<Err((i - 1) + 2, <<"s","t","r","u","c","t","u","r","e">>, Msg("Blank row detected", <<>>))>>
          ELSE <<>>])
    \o (IF NRows(df) > 12
          THEN <<Err(0, <<"s","t","r","u","c","t","u","r","e">>, Msg("Too many rows", <<NRows(df)>>))>>
        ELSE IF NRows(df) > 0 /\ NRows(df) < 12
          THEN <<Err(0, <<"s","t","r","u","c","t","u","r","e">>, Msg("Only some months of data found", <<NRows(df)>>))>>
        ELSE <<>>)

\* the checks on the names as they stand in the header and in the template
StructureOrOld_Untrimmed(df, report_type, old_template_check) ==
    IF old_template_check # <<>>
    THEN <<Err(0, <<"t","e","m","p","l","a","t","e">>, Msg("Old template detected", <<old_template_check>>))>>
    ELSE StructureChecks(df, df.columns, get_expected_columns(report_type))

\* the checks go on after an old template was detected
StructureOrOld_GoesOn(df, report_type, old_template_check) ==
    (IF old_template_check # <<>>
     THEN <<Err(0, <<"t","e","m","p","l","a","t","e">>, Msg("Old template detected", <<old_template_check>>))>>
     ELSE <<>>)
    \o StructureChecks(df, StripAll(df.columns), StripAll(get_expected_columns(report_type)))

StructureOrOld(df, report_type, old_template_check) ==
    IF old_template_check # <<>>
    THEN <<Err(0, <<"t","e","m","p","l","a","t","e">>, Msg("Old template detected", <<old_template_check>>))>>
    ELSE StructureChecks(df, StripAll(df.columns), StripAll(get_expected_columns(report_type)))

validate_structure(df, report_type) ==
    StructureOrOld(df, report_type, detect_old_template(df.columns, report_type))

\* ------------------------------------------------------------------------
\* Template integrity validation
\* ------------------------------------------------------------------------

SeasonColumn(report_type) ==
    IF report_type = "RSV" THEN <<"R","S","V"," ","S","e","a","s","o","n">>
    ELSE IF report_type = "FLU" THEN <<"F","l","u"," ","S","e","a","s","o","n">>
    ELSE <<"S","e","a","s","o","n">>

\* ^(\d{4})-(\d{2})$ on the stripped text t, and the second number the last
\* two digits of the first plus one
\* a format whose second pair of digits is that of the first year
SeasonFormat_SameYear(t) ==
    /\ Len(t) = 7
    /\ AllDigits(SubSeq(t, 1, 4))
    /\ t[5] = "-"
    /\ AllDigits(SubSeq(t, 6, 7))
    /\ StrToNat(SubSeq(t, 6, 7)) = StrToNat(SubSeq(t, 1, 4)) % 100

SeasonFormat(t) ==
    /\ Len(t) = 7
    /\ AllDigits(SubSeq(t, 1, 4))
    /\ t[5] = "-"
    /\ AllDigits(SubSeq(t, 6, 7))
    /\ StrToNat(SubSeq(t, 6, 7)) = (StrToNat(SubSeq(t, 1, 4)) + 1) % 100

validate_season_format(val) == SeasonFormat(Strip(val))

\* ^\d{1,2}/\d{1,2}/\d{4}$ on the stripped text t
DateFormat(t) ==
    \E a \in 1..2, b \in 1..2 :
        /\ Len(t) = a + b + 6
        /\ AllDigits(SubSeq(t, 1, a))
        /\ t[a + 1] = "/"
        /\ AllDigits(SubSeq(t, a + 2, a + 1 + b))
        /\ t[a + b + 2] = "/"
        /\ AllDigits(SubSeq(t, a + b + 3, a + b + 6))

validate_date_format(val) == DateFormat(Strip(val))

SeasonErrors(season_col, vals) ==
    Flatten([i \in 1..Len(vals) |->
        IF NotNa(vals[i]) /\ ~validate_season_format(Strip(vals[i]))
        THEN <<Err((i - 1) + 2, season_col, Msg("Invalid season format", <<Strip(vals[i])>>))>>
        ELSE <<>>])

\* valid_months, as the rows that hold them
ValidMonthRows(months) ==
    {i \in 1..Len(months) : NotNa(months[i]) /\ In(Strip(months[i]), VALID_MONTHS)}

DuplicateMonths(months, valid_idx) ==
    IF Cardinality(valid_idx) # Cardinality({Strip(months[i]) : i \in valid_idx})
    THEN <<Err(0, <<"M","o","n","t","h">>, Msg("Duplicate months detected", <<>>))>>
    ELSE <<>>

MonthErrors(months) ==
    Flatten([i \in 1..Len(months) |->
        IF NotNa(months[i]) /\ ~In(Strip(months[i]), VALID_MONTHS)
        THEN <<Err((i - 1) + 2, <<"M","o","n","t","h">>, Msg("Invalid month", <<Strip(months[i])>>))>>
        ELSE <<>>])
    \o DuplicateMonths(months, ValidMonthRows(months))

DueDateErrors(vals) ==
    Flatten([i \in 1..Len(vals) |->
        IF NotNa(vals[i]) /\ ~validate_date_format(vals[i])
        THEN <<Err((i - 1) + 2, <<"R","e","p","o","r","t"," ","D","u","e"," ","D","a","t","e">>, Msg("Invalid date format", <<vals[i]>>))>>
        ELSE <<>>])

DueDateColumn(df) ==
    IF HasColumn(df, <<"R","e","p","o","r","t"," ","D","u","e"," ","D","a","t","e"," ">>) THEN <<"R","e","p","o","r","t"," ","D","u","e"," ","D","a","t","e"," ">> ELSE <<"R","e","p","o","r","t"," ","D","u","e"," ","D","a","t","e">>

validate_template_integrity(df, report_type) ==
    (IF HasColumn(df, SeasonColumn(report_type))
     THEN SeasonErrors(SeasonColumn(report_type), Column(df, SeasonColumn(report_type)))
     ELSE <<>>)
    \o (IF HasColumn(df, <<"M","o","n","t","h">>) THEN MonthErrors(Column(df, <<"M","o","n","t","h">>)) ELSE <<>>)
    \o (IF HasColumn(df, DueDateColumn(df))
        THEN DueDateErrors(Column(df, DueDateColumn(df)))
        ELSE <<>>)

\* ------------------------------------------------------------------------
\* Numerator/population validation
\* ------------------------------------------------------------------------

\* [c for c in df.columns if word in c.lower()]
ColumnsNamed(df, word) ==
    SelectIdx(df.columns, {i \in 1..Len(df.columns) : Contains(Lower(df.columns[i]), word)}, 1)

\* the outcome of a piece of code that appends errors and may raise: errors
\* are those appended before the exception, raised is "" or the exception
Outcome(errors, raised) == [errors |-> errors, raised |-> raised]

\* pieces run one after the other: an exception ends the run
RECURSIVE RunSteps(_)
RunSteps(steps) ==
    IF steps = <<>> THEN Outcome(<<>>, "")
    ELSE IF Head(steps).raised # "" THEN Head(steps)
    ELSE LET rest == RunSteps(Tail(steps))
         IN  Outcome(Head(steps).errors \o rest.errors, rest.raised)

\* the magnitude checks on num_val = int(float(val))
MagnitudeErrors(row_num, col, n, limit) ==
    (IF n < 0
     THEN <<Err(row_num, col, Msg("Negative value not allowed", <<n>>))>>
     ELSE <<>>)
    \o (IF n > limit
        THEN <<Err(row_num, col, Msg("Value suspiciously large", <<n>>))>>
        ELSE <<>>)

\* checked is what validate_integer_value returned (or raised), parsed is
\* int(float(val)) under "except: pass"
CheckedCount(row_num, col, limit, checked, parsed) ==
    IF checked.raised # "" THEN Outcome(<<>>, checked.raised)
    ELSE IF checked.error # NoError THEN Outcome(<<Err(row_num, col, checked.error)>>, "")
    ELSE IF parsed.exc # "" THEN Outcome(<<>>, "")
    ELSE Outcome(MagnitudeErrors(row_num, col, parsed.val, limit), "")

\* the body of "for col in num_cols" / "for col in pop_cols" for one cell;
\* limit is 50000000 for a numerator and 100000000 for a population column
CheckCount(val, row_num, col, limit) ==
    IF ~NotNa(val) THEN Outcome(<<>>, "")
    ELSE CheckedCount(row_num, col, limit, validate_integer_value(val, col), IntOfFloat(val))

\* age_groups of validate_num_pop_pairs: <<name, numerator column, population column>>
AgeGroups ==
    << <<<<"6"," ","m","o","n","t","h","s","-","2","3"," ","m","o","n","t","h","s">>, <<"6"," ","m","o","n","t","h","s","-","2","3"," ","m","o","n","t","h","s"," ","n","u","m","e","r","a","t","o","r">>, <<"6"," ","m","o","n","t","h","s","-","2","3"," ","m","o","n","t","h","s"," ","p","o","p","u","l","a","t","i","o","n">>>>,
       <<<<"2","-","4"," ","y","e","a","r","s">>, <<"2","-","4"," ","y","e","a","r","s"," ","n","u","m","e","r","a","t","o","r">>, <<"2","-","4"," ","y","e","a","r","s"," ","p","o","p","u","l","a","t","i","o","n">>>>,
       <<<<"5","-","8"," ","y","e","a","r","s">>, <<"5","-","8"," ","y","e","a","r","s"," ","n","u","m","e","r","a","t","o","r">>, <<"5","-","8"," ","y","e","a","r","s"," ","p","o","p","u","l","a","t","i","o","n">>>>,
       <<<<"9","-","1","2"," ","y","e","a","r","s">>, <<"9","-","1","2"," ","y","e","a","r","s"," ","n","u","m","e","r","a","t","o","r">>, <<"9","-","1","2"," ","y","e","a","r","s"," ","p","o","p","u","l","a","t","i","o","n">>>>,
       <<<<"1","3","-","1","7"," ","y","e","a","r","s">>, <<"1","3","-","1","7"," ","y","e","a","r","s"," ","n","u","m","e","r","a","t","o","r">>, <<"1","3","-","1","7"," ","y","e","a","r","s"," ","p","o","p","u","l","a","t","i","o","n">>>>,
       <<<<"1","8","-","4","9"," ","y","e","a","r","s">>, <<"1","8","-","4","9"," ","y","e","a","r","s"," ","n","u","m","e","r","a","t","o","r">>, <<"1","8","-","4","9"," ","y","e","a","r","s"," ","p","o","p","u","l","a","t","i","o","n">>>>,
       <<<<"5","0","-","6","4"," ","y","e","a","r","s">>, <<"5","0","-","6","4"," ","y","e","a","r","s"," ","n","u","m","e","r","a","t","o","r">>, <<"5","0","-","6","4"," ","y","e","a","r","s"," ","p","o","p","u","l","a","t","i","o","n">>>>,
       <<<<"6","5","+"," ","y","e","a","r","s">>, <<"6","5","+"," ","y","e","a","r","s"," ","n","u","m","e","r","a","t","o","r">>, <<"6","5","+"," ","y","e","a","r","s"," ","p","o","p","u","l","a","t","i","o","n">>>>,
       <<<<"0"," ","m","o","n","t","h","s","-","7"," ","m","o","n","t","h","s">>, <<"0"," ","m","o","n","t","h","s","-","7"," ","m","o","n","t","h","s"," ","n","u","m","e","r","a","t","o","r">>, <<"0"," ","m","o","n","t","h","s","-","7"," ","m","o","n","t","h","s"," ","p","o","p","u","l","a","t","i","o","n">>>>,
       <<<<"8"," ","m","o","n","t","h","s","-","1","9"," ","m","o","n","t","h","s">>, <<"8"," ","m","o","n","t","h","s","-","1","9"," ","m","o","n","t","h","s"," ","n","u","m","e","r","a","t","o","r">>, <<"8"," ","m","o","n","t","h","s","-","1","9"," ","m","o","n","t","h","s"," ","p","o","p","u","l","a","t","i","o","n">>>>,
       <<<<"5","0","-","5","9"," ","y","e","a","r","s">>, <<"5","0","-","5","9"," ","y","e","a","r","s"," ","n","u","m","e","r","a","t","o","r">>, <<"5","0","-","5","9"," ","y","e","a","r","s"," ","p","o","p","u","l","a","t","i","o","n">>>>,
       <<<<"6","0","-","7","4"," ","y","e","a","r","s">>, <<"6","0","-","7","4"," ","y","e","a","r","s"," ","n","u","m","e","r","a","t","o","r">>, <<"6","0","-","7","4"," ","y","e","a","r","s"," ","p","o","p","u","l","a","t","i","o","n">>>>,
       <<<<"7","5","+"," ","y","e","a","r","s">>, <<"7","5","+"," ","y","e","a","r","s"," ","n","u","m","e","r","a","t","o","r">>, <<"7","5","+"," ","y","e","a","r","s"," ","p","o","p","u","l","a","t","i","o","n">>>>,
       <<<<"6","0","+"," ","y","e","a","r","s">>, <<"6","0","+"," ","y","e","a","r","s"," ","n","u","m","e","r","a","t","o","r">>, <<"6","0","+"," ","y","e","a","r","s"," ","p","o","p","u","l","a","t","i","o","n">>>>,
       <<<<"6"," ","m","o","n","t","h","s"," ","t","o"," ","1","7"," ","y","e","a","r","s">>, <<"6"," ","m","o","n","t","h","s"," ","t","o"," ","1","7"," ","y","e","a","r","s"," ","n","u","m","e","r","a","t","o","r">>, <<"6"," ","m","o","n","t","h","s"," ","t","o"," ","1","7"," ","y","e","a","r","s"," ","p","o","p","u","l","a","t","i","o","n">>>>,
       <<<<"A","l","l"," ","a","d","u","l","t","s"," ","(","+","1","8",")">>, <<"A","l","l"," ","a","d","u","l","t","s"," ","n","u","m","e","r","a","t","o","r"," ","(","+","1","8",")">>, <<"A","l","l"," ","a","d","u","l","t","s"," ","(","+","1","8",")"," ","p","o","p","u","l","a","t","i","o","n">>>>,
       <<<<"O","v","e","r","a","l","l"," ","(","a","l","l"," ","a","g","e","s",")">>, <<"O","v","e","r","a","l","l"," ","n","u","m","e","r","a","t","o","r"," ","(","a","l","l"," ","a","g","e","s",")">>, <<"O","v","e","r","a","l","l"," ","(","a","l","l"," ","a","g","e","s",")"," ","p","o","p","u","l","a","t","i","o","n">>>> >>

\* a comparison whose rate check does not ask for a population above 0
PairCompared_AnyPopulation(row_num, name, num_col, num, pop) ==
    IF num.exc # "" \/ pop.exc # "" THEN <<>>
    ELSE (IF num.val > pop.val
          THEN <<Err(row_num, num_col, Msg("Numerator exceeds population", <<num.val, pop.val, name>>))>>
          ELSE <<>>)
         \o (IF num.val > pop.val
             THEN <<Err(row_num, num_col, Msg("Vaccination rate exceeds 100%", <<name>>))>>
             ELSE <<>>)

\* num and pop are int(float(...)) of the two cells, both under one try:
\* when either raises no comparison is made.  For integers with pop > 0,
\* (num / pop) > 1.0 is num > pop.
PairCompared(row_num, name, num_col, num, pop) ==
    IF num.exc # "" \/ pop.exc # "" THEN <<>>
    ELSE (IF num.val > pop.val
          THEN <<Err(row_num, num_col, Msg("Numerator exceeds population", <<num.val, pop.val, name>>))>>
          ELSE <<>>)
         \o (IF pop.val > 0 /\ num.val > pop.val
             THEN <<Err(row_num, num_col, Msg("Vaccination rate exceeds 100%", <<name>>))>>
             ELSE <<>>)

\* an age group that is compared but never asked for its population
PairErrors_ComparedOnly(row_num, name, num_col, pop_col, num_val, pop_val) ==
    IF NotNa(num_val) /\ NotNa(pop_val)
    THEN PairCompared(row_num, name, num_col, IntOfFloat(num_val), IntOfFloat(pop_val))
    ELSE <<>>

\* one age group whose two columns are in the row
PairErrors(row_num, name, num_col, pop_col, num_val, pop_val) ==
    (IF NotNa(num_val) /\ NotNa(pop_val)
     THEN PairCompared(row_num, name, num_col, IntOfFloat(num_val), IntOfFloat(pop_val))
     ELSE <<>>)
    \o (IF NotNa(num_val) /\ ~NotNa(pop_val)
        THEN <<Err(row_num, pop_col, Msg("Population required when numerator is provided", <<name>>))>>
        ELSE <<>>)

\* "for name, num_col, pop_col in age_groups"
PairLoop(df, i, row_num, age_groups) ==
    Flatten([g \in 1..Len(age_groups) |->
        IF ~(HasColumn(df, age_groups[g][2]) /\ HasColumn(df, age_groups[g][3])) THEN <<>>
        ELSE PairErrors(row_num, age_groups[g][1], age_groups[g][2], age_groups[g][3],
                        Cell(df, i, age_groups[g][2]), Cell(df, i, age_groups[g][3]))])

\* validate_num_pop_pairs for the row at position i
validate_num_pop_pairs(df, i, row_num) == PairLoop(df, i, row_num, AgeGroups)

NumeratorLimit == 50000000

PopulationLimit == 100000000

\* a row loop that numbers the rows without the header line
NumPopRow_NoHeader(df, i, num_cols, pop_cols) ==
    RunSteps([k \in 1..Len(num_cols) |->
                 CheckCount(Cell(df, i, num_cols[k]), (i - 1) + 1, num_cols[k], NumeratorLimit)]
             \o [k \in 1..Len(pop_cols) |->
                 CheckCount(Cell(df, i, pop_cols[k]), (i - 1) + 1, pop_cols[k], PopulationLimit)]
             \o <<Outcome(validate_num_pop_pairs(df, i, (i - 1) + 1), "")>>)

\* the body of "for idx, row in df.iterrows()" for the row at position i
NumPopRow(df, i, num_cols, pop_cols) ==
    RunSteps([k \in 1..Len(num_cols) |->
                 CheckCount(Cell(df, i, num_cols[k]), (i - 1) + 2, num_cols[k], NumeratorLimit)]
             \o [k \in 1..Len(pop_cols) |->
                 CheckCount(Cell(df, i, pop_cols[k]), (i - 1) + 2, pop_cols[k], PopulationLimit)]
             \o <<Outcome(validate_num_pop_pairs(df, i, (i - 1) + 2), "")>>)

NumPopRows(df, num_cols, pop_cols) ==
    RunSteps([i \in 1..NRows(df) |-> NumPopRow(df, i, num_cols, pop_cols)])

\* validate_numerator_population: row by row, the numerator columns, the
\* population columns, then the pairs
validate_numerator_population(df) ==
    NumPopRows(df, ColumnsNamed(df, <<"n","u","m","e","r","a","t","o","r">>), ColumnsNamed(df, <<"p","o","p","u","l","a","t","i","o","n">>))

\* ------------------------------------------------------------------------
\* Rollup validation
\* ------------------------------------------------------------------------

RECURSIVE SumSeq(_)
SumSeq(s) == IF s = <<>> THEN 0 ELSE Head(s) + SumSeq(Tail(s))

\* row[col] for each component column, NA standing also for a column that is
\* not in the row: both leave all_present False and add nothing to the sum
ComponentCells(df, i, component_cols) ==
    [k \in 1..Len(component_cols) |->
        IF HasColumn(df, component_cols[k]) THEN Cell(df, i, component_cols[k]) ELSE NA]

\* a comparison that does not look at all_present
RollupCompared_PartialSum(row_num, rollup_col, rollup_name, side, all_present, rollup_val, component_sum) ==
    IF rollup_val # component_sum
    THEN <<Err(row_num, rollup_col, Msg("Rollup does not equal sum of components",
                <<rollup_name, side, rollup_val, component_sum>>))>>
    ELSE <<>>

\* the comparison at the end of the try block
RollupCompared(row_num, rollup_col, rollup_name, side, all_present, rollup_val, component_sum) ==
    IF all_present /\ rollup_val # component_sum
    THEN <<Err(row_num, rollup_col, Msg("Rollup does not equal sum of components",
                <<rollup_name, side, rollup_val, component_sum>>))>>
    ELSE <<>>

\* the try block of one side: parsed is int(float(...)) of each component
\* cell that is present; an int(float(...)) that raises ends the block
\* without an error (except: pass)
RollupTry(row_num, rollup_col, rollup_name, side, rollup, cells, parsed) ==
    IF rollup.exc # "" \/ \E k \in 1..Len(cells) : NotNa(cells[k]) /\ parsed[k].exc # "" THEN <<>>
    ELSE RollupCompared(row_num, rollup_col, rollup_name, side,
                        \A k \in 1..Len(cells) : NotNa(cells[k]),
                        rollup.val,
                        SumSeq([k \in 1..Len(cells) |-> IF NotNa(cells[k]) THEN parsed[k].val ELSE 0]))

RollupCells(row_num, rollup_col, rollup_name, side, rollup, cells) ==
    IF ~NotNa(rollup) THEN <<>>
    ELSE RollupTry(row_num, rollup_col, rollup_name, side, IntOfFloat(rollup), cells,
                   [k \in 1..Len(cells) |-> IF NotNa(cells[k]) THEN IntOfFloat(cells[k])
                                            ELSE [exc |-> "", val |-> 0]])

\* one side (numerator or population) of validate_rollup_sum for the row at
\* position i
RollupSide(df, i, row_num, component_cols, rollup_col, rollup_name, side) ==
    IF ~HasColumn(df, rollup_col) THEN <<>>
    ELSE RollupCells(row_num, rollup_col, rollup_name, side, Cell(df, i, rollup_col),
                     ComponentCells(df, i, component_cols))

validate_rollup_sum(df, i, row_num, spec) ==
    RollupSide(df, i, row_num, spec.component_num_cols, spec.rollup_num_col, spec.rollup_name, "numerator")
    \o RollupSide(df, i, row_num, spec.component_pop_cols, spec.rollup_pop_col, spec.rollup_name, "population")

ChildNumCols ==
    <<<<"6"," ","m","o","n","t","h","s","-","2","3"," ","m","o","n","t","h","s"," ","n","u","m","e","r","a","t","o","r">>, <<"2","-","4"," ","y","e","a","r","s"," ","n","u","m","e","r","a","t","o","r">>, <<"5","-","8"," ","y","e","a","r","s"," ","n","u","m","e","r","a","t","o","r">>,
      <<"9","-","1","2"," ","y","e","a","r","s"," ","n","u","m","e","r","a","t","o","r">>, <<"1","3","-","1","7"," ","y","e","a","r","s"," ","n","u","m","e","r","a","t","o","r">>>>

ChildPopCols ==
    <<<<"6"," ","m","o","n","t","h","s","-","2","3"," ","m","o","n","t","h","s"," ","p","o","p","u","l","a","t","i","o","n">>, <<"2","-","4"," ","y","e","a","r","s"," ","p","o","p","u","l","a","t","i","o","n">>, <<"5","-","8"," ","y","e","a","r","s"," ","p","o","p","u","l","a","t","i","o","n">>,
      <<"9","-","1","2"," ","y","e","a","r","s"," ","p","o","p","u","l","a","t","i","o","n">>, <<"1","3","-","1","7"," ","y","e","a","r","s"," ","p","o","p","u","l","a","t","i","o","n">>>>

AdultNumCols == <<<<"1","8","-","4","9"," ","y","e","a","r","s"," ","n","u","m","e","r","a","t","o","r">>, <<"5","0","-","6","4"," ","y","e","a","r","s"," ","n","u","m","e","r","a","t","o","r">>, <<"6","5","+"," ","y","e","a","r","s"," ","n","u","m","e","r","a","t","o","r">>>>

AdultPopCols == <<<<"1","8","-","4","9"," ","y","e","a","r","s"," ","p","o","p","u","l","a","t","i","o","n">>, <<"5","0","-","6","4"," ","y","e","a","r","s"," ","p","o","p","u","l","a","t","i","o","n">>, <<"6","5","+"," ","y","e","a","r","s"," ","p","o","p","u","l","a","t","i","o","n">>>>

\* the rollups validate_rollups checks for a report type, in call order
RollupSpecs(report_type) ==
    IF report_type \in {"COVID", "FLU"}
    THEN << [component_num_cols |-> ChildNumCols, component_pop_cols |-> ChildPopCols,
             rollup_num_col |-> <<"6"," ","m","o","n","t","h","s"," ","t","o"," ","1","7"," ","y","e","a","r","s"," ","n","u","m","e","r","a","t","o","r">>,
             rollup_pop_col |-> <<"6"," ","m","o","n","t","h","s"," ","t","o"," ","1","7"," ","y","e","a","r","s"," ","p","o","p","u","l","a","t","i","o","n">>,
             rollup_name |-> <<"6"," ","m","o","n","t","h","s"," ","t","o"," ","1","7"," ","y","e","a","r","s">>],
            [component_num_cols |-> AdultNumCols, component_pop_cols |-> AdultPopCols,
             rollup_num_col |-> <<"A","l","l"," ","a","d","u","l","t","s"," ","n","u","m","e","r","a","t","o","r"," ","(","+","1","8",")">>,
             rollup_pop_col |-> <<"A","l","l"," ","a","d","u","l","t","s"," ","(","+","1","8",")"," ","p","o","p","u","l","a","t","i","o","n">>,
             rollup_name |-> <<"A","l","l"," ","a","d","u","l","t","s"," ","(","+","1","8",")">>],
            [component_num_cols |-> ChildNumCols \o AdultNumCols,
             component_pop_cols |-> ChildPopCols \o AdultPopCols,
             rollup_num_col |-> <<"O","v","e","r","a","l","l"," ","n","u","m","e","r","a","t","o","r"," ","(","a","l","l"," ","a","g","e","s",")">>,
             rollup_pop_col |-> <<"O","v","e","r","a","l","l"," ","(","a","l","l"," ","a","g","e","s",")"," ","p","o","p","u","l","a","t","i","o","n">>,
             rollup_name |-> <<"O","v","e","r","a","l","l"," ","(","a","l","l"," ","a","g","e","s",")">>] >>
    ELSE IF report_type = "RSV"
    THEN << [component_num_cols |-> <<<<"6","0","-","7","4"," ","y","e","a","r","s"," ","n","u","m","e","r","a","t","o","r">>, <<"7","5","+"," ","y","e","a","r","s"," ","n","u","m","e","r","a","t","o","r">>>>,
             component_pop_cols |-> <<<<"6","0","-","7","4"," ","y","e","a","r","s"," ","p","o","p","u","l","a","t","i","o","n">>, <<"7","5","+"," ","y","e","a","r","s"," ","p","o","p","u","l","a","t","i","o","n">>>>,
             rollup_num_col |-> <<"6","0","+"," ","y","e","a","r","s"," ","n","u","m","e","r","a","t","o","r">>,
             rollup_pop_col |-> <<"6","0","+"," ","y","e","a","r","s"," ","p","o","p","u","l","a","t","i","o","n">>,
             rollup_name |-> <<"6","0","+"," ","y","e","a","r","s">>] >>
    ELSE <<>>

RollupRows(df, specs) ==
    Flatten([i \in 1..NRows(df) |->
        Flatten([s \in 1..Len(specs) |-> validate_rollup_sum(df, i, (i - 1) + 2, specs[s])])])

validate_rollups(df, report_type) == RollupRows(df, RollupSpecs(report_type))

\* ------------------------------------------------------------------------
\* Cumulative data validation
\* ------------------------------------------------------------------------

\* the row loop of validate_cumulative_data for one column, from position i
\* on; vals are the column's cells, prev is <<>> for None and <<prev_val>>
\* otherwise
RECURSIVE CumulativeScan(_, _, _, _)

\* a row of the loop that also reports a value equal to the previous one
CumulativeRow_NotStrict(col, vals, i, prev, curr) ==
    IF curr.exc # "" THEN CumulativeScan(col, vals, i + 1, prev)
    ELSE (IF prev # <<>> /\ curr.val <= prev[1]
          THEN <<Err((i - 1) + 2, col, Msg("Cumulative value decreased", <<prev[1], curr.val>>))>>
          ELSE <<>>)
         \o CumulativeScan(col, vals, i + 1, <<curr.val>>)

\* a row of the loop that numbers the rows one too high
CumulativeRow_OneTooHigh(col, vals, i, prev, curr) ==
    IF curr.exc # "" THEN CumulativeScan(col, vals, i + 1, prev)
    ELSE (IF prev # <<>> /\ curr.val < prev[1]
          THEN <<Err((i - 1) + 3, col, Msg("Cumulative value decreased", <<prev[1], curr.val>>))>>
          ELSE <<>>)
         \o CumulativeScan(col, vals, i + 1, <<curr.val>>)

\* one row of the loop: curr is int(float(val)) under "except: pass"
CumulativeRow(col, vals, i, prev, curr) ==
    IF curr.exc # "" THEN CumulativeScan(col, vals, i + 1, prev)
    ELSE (IF prev # <<>> /\ curr.val < prev[1]
          THEN <<Err((i - 1) + 2, col, Msg("Cumulative value decreased", <<prev[1], curr.val>>))>>
          ELSE <<>>)
         \o CumulativeScan(col, vals, i + 1, <<curr.val>>)

CumulativeScan(col, vals, i, prev) ==
    IF i > Len(vals) THEN <<>>
    ELSE IF ~NotNa(vals[i]) THEN CumulativeScan(col, vals, i + 1, prev)
    ELSE CumulativeRow(col, vals, i, prev, IntOfFloat(vals[i]))

CumulativeColumns(df, num_cols) ==
    Flatten([k \in 1..Len(num_cols) |-> CumulativeScan(num_cols[k], Column(df, num_cols[k]), 1, <<>>)])

validate_cumulative_data(df) == CumulativeColumns(df, ColumnsNamed(df, <<"n","u","m","e","r","a","t","o","r">>))

\* ------------------------------------------------------------------------
\* Data quality validation
\* ------------------------------------------------------------------------

ExcelErrors == <<<<"#","R","E","F","!">>, <<"#","V","A","L","U","E","!">>, <<"#","D","I","V","/","0","!">>, <<"#","N","A","M","E","?">>, <<"#","N","U","L","L","!">>, <<"#","N","/","A">>, <<"#","N","U","M","!">>>>

QualityPlaceholders ==
    <<<<"t","b","d">>, <<"n","/","a">>, <<"n","a">>, <<"p","e","n","d","i","n","g">>, <<"n","u","l","l">>, <<"n","o","n","e">>, <<"-">>, <<"-","-">>, <<".",".",".">>, <<"x","x","x">>,
      <<"x">>, <<"?">>, <<"?","?">>>>

ApproxIndicators ==
    <<<<"a","b","o","u","t">>, <<"a","p","p","r","o","x">>, <<"a","p","p","r","o","x","i","m","a","t","e","l","y">>, <<"~">>, <<">">>, <<"<">>, <<"a","r","o","u","n","d">>, <<"r","o","u","g","h","l","y">>,
      <<"e","s","t">>, <<"e","s","t","i","m","a","t","e","d">>>>

IsNumericColumn(col) == Contains(Lower(col), <<"n","u","m","e","r","a","t","o","r">>) \/ Contains(Lower(col), <<"p","o","p","u","l","a","t","i","o","n">>)

\* s.isdigit(): at least one character and all of them digits
IsDigitText(s) == s # <<>> /\ AllDigits(s)

\* the checks on a cell of a numerator or population column
NumericCellChecks(val_str, row_num, col) ==
    (IF In(Lower(val_str), QualityPlaceholders)
     THEN <<Err(row_num, col, Msg("Placeholder found", <<val_str>>))>> ELSE <<>>)
    \o (IF /\ \E k \in 1..Len(val_str) : IsAlpha(val_str[k])
           /\ \E k \in 1..Len(val_str) : IsDigit(val_str[k])
           /\ ~IsDigitText(Replace(Replace(Replace(Replace(val_str,
                    <<".">>, <<>>), <<"-">>, <<>>), <<"/">>, <<>>), <<" ">>, <<>>))
           /\ ~Contains(col, <<"D","O","B">>)
           /\ ~Contains(Lower(col), <<"d","a","t","e">>)
           /\ ~Contains(Lower(col), <<"v","a","x","_","d","a","t","e">>)
        THEN <<Err(row_num, col, Msg("Mixed text and numbers", <<val_str>>))>> ELSE <<>>)
    \o (IF StartsWith(val_str, <<"$">>) \/ StartsWith(val_str, <<"-","$">>)
        THEN <<Err(row_num, col, Msg("Currency formatting not allowed", <<val_str>>))>> ELSE <<>>)
    \o (IF "%" \in Range(val_str)
        THEN <<Err(row_num, col, Msg("Percentage sign not allowed", <<val_str>>))>> ELSE <<>>)
    \o (IF StartsWith(val_str, <<"(">>) /\ EndsWith(val_str, <<")">>)
        THEN <<Err(row_num, col, Msg("Accounting format detected", <<val_str>>))>> ELSE <<>>)
    \o Flatten([k \in 1..Len(ApproxIndicators) |->
          IF Contains(Lower(val_str), ApproxIndicators[k])
          THEN <<Err(row_num, col, Msg("Approximate values not allowed", <<val_str>>))>>
          ELSE <<>>])

CellChecks(val, val_str, row_num, col, numeric) ==
    (IF In(Upper(val_str), ExcelErrors)
     THEN <<Err(row_num, col, Msg("Excel error value", <<val_str>>))>> ELSE <<>>)
    \o (IF val # val_str /\ numeric
        THEN <<Err(row_num, col, Msg("Value has leading/trailing whitespace", <<>>))>> ELSE <<>>)
    \o (IF numeric THEN NumericCellChecks(val_str, row_num, col) ELSE <<>>)

\* the checks of validate_data_quality on one cell that is not NA
CellQuality(val, row_num, col) == CellChecks(val, Strip(val), row_num, col, IsNumericColumn(col))

\* int(float(val)) under "except: pass" as a list: <<v>> for a parsed value,
\* <<>> when it raised
ValueOrNone(parsed) == IF parsed.exc = "" THEN <<parsed.val>> ELSE <<>>

\* the same for a cell that may be NA, NA giving <<>> too
ParsedValue(val) == IF NotNa(val) THEN ValueOrNone(IntOfFloat(val)) ELSE <<>>

\* values of validate_copy_paste_errors for one column: <<v>> for a parsed
\* value, <<>> for None
ParsedColumn(df, col) == [i \in 1..NRows(df) |-> ParsedValue(Cell(df, i, col))]

\* the same loop, satisfied with 2 consecutive equal values
RECURSIVE CopyPasteRun_Twice(_, _, _)
CopyPasteRun_Twice(values, i, run) ==
    IF i > Len(values) THEN [found |-> FALSE, value |-> 0]
    ELSE IF /\ values[i] # <<>> /\ values[i - 1] # <<>>
            /\ values[i] = values[i - 1] /\ values[i][1] > 0
         THEN IF run + 1 >= 2 THEN [found |-> TRUE, value |-> values[i][1]]
              ELSE CopyPasteRun_Twice(values, i + 1, run + 1)
         ELSE CopyPasteRun_Twice(values, i + 1, 1)

\* the same loop, counting equal values of any sign
RECURSIVE CopyPasteRun_AnySign(_, _, _)
CopyPasteRun_AnySign(values, i, run) ==
    IF i > Len(values) THEN [found |-> FALSE, value |-> 0]
    ELSE IF /\ values[i] # <<>> /\ values[i - 1] # <<>>
            /\ values[i] = values[i - 1]
         THEN IF run + 1 >= 3 THEN [found |-> TRUE, value |-> values[i][1]]
              ELSE CopyPasteRun_AnySign(values, i + 1, run + 1)
         ELSE CopyPasteRun_AnySign(values, i + 1, 1)

\* the loop "for i in range(1, len(values))" from position i (from 2) with
\* consecutive_same = run: found when it reaches 3 consecutive equal values
RECURSIVE CopyPasteRun(_, _, _)
CopyPasteRun(values, i, run) ==
    IF i > Len(values) THEN [found |-> FALSE, value |-> 0]
    ELSE IF /\ values[i] # <<>> /\ values[i - 1] # <<>>
            /\ values[i] = values[i - 1] /\ values[i][1] > 0
         THEN IF run + 1 >= 3 THEN [found |-> TRUE, value |-> values[i][1]]
              ELSE CopyPasteRun(values, i + 1, run + 1)
         ELSE CopyPasteRun(values, i + 1, 1)

CopyPasteError(col, hit) ==
    IF hit.found
    THEN <<Err(0, col, Msg("Possible copy-paste error",
                <<Replace(Replace(col, <<" ","n","u","m","e","r","a","t","o","r">>, <<>>), <<" ","n","u","m","e","r","a","t","o","r"," ">>, <<>>), hit.value>>))>>
    ELSE <<>>

CopyPasteColumns(df, num_cols) ==
    Flatten([k \in 1..Len(num_cols) |->
        CopyPasteError(num_cols[k], CopyPasteRun(ParsedColumn(df, num_cols[k]), 2, 1))])

validate_copy_paste_errors(df) ==
    IF NRows(df) < 3 THEN <<>> ELSE CopyPasteColumns(df, ColumnsNamed(df, <<"n","u","m","e","r","a","t","o","r">>))

FirstColumn(cols, hits) == IF hits = {} THEN <<>> ELSE cols[Min(hits)]

ColumnsContaining(pop_cols, base_name) ==
    FirstColumn(pop_cols, {k \in 1..Len(pop_cols) : Contains(pop_cols[k], base_name)})

\* the population column validate_suspicious_patterns and validate_zero_logic
\* pair with a numerator column: the first one whose name contains the
\* numerator column's name without the word "numerator"; <<>> when none does
MatchingPopCol(pop_cols, num_col) ==
    ColumnsContaining(pop_cols, Strip(Replace(num_col, <<"n","u","m","e","r","a","t","o","r">>, <<>>)))

\* num and pop are the two cells' values, <<>> when a cell is NA or does not parse
FullRate(row_num, num_col, num, pop) ==
    IF num # <<>> /\ pop # <<>> /\ pop[1] > 0 /\ num[1] = pop[1] /\ num[1] > 100
    THEN <<Err(row_num, num_col, Msg("Exactly 100% vaccination rate is unusual", <<num[1], pop[1]>>))>>
    ELSE <<>>

FullRateAt(df, i, num_col, pop_col) ==
    IF pop_col = <<>> THEN <<>>
    ELSE FullRate((i - 1) + 2, num_col, ParsedValue(Cell(df, i, num_col)),
                  ParsedValue(Cell(df, i, pop_col)))

\* the round-thousands loop: values are the population values it parses, in
\* the order it visits them; it stops at the first positive value that is
\* not a multiple of 1000, and then all_round is False whatever pop_count is
RoundThousands(values) ==
    IF (\A j \in 1..Len(values) : ~(values[j] > 0 /\ values[j] % 1000 # 0)) /\ Len(values) > 10
    THEN <<Err(0, <<"p","o","p","u","l","a","t","i","o","n">>, Msg("All population values are round thousands", <<>>))>>
    ELSE <<>>

SuspiciousPatterns(df, num_cols, pop_cols) ==
    Flatten([i \in 1..NRows(df) |->
        Flatten([k \in 1..Len(num_cols) |->
            FullRateAt(df, i, num_cols[k], MatchingPopCol(pop_cols, num_cols[k]))])])
    \o RoundThousands(Flatten([k \in 1..Len(pop_cols) |->
                         Flatten([i \in 1..NRows(df) |-> ParsedValue(Cell(df, i, pop_cols[k]))])]))

validate_suspicious_patterns(df) ==
    SuspiciousPatterns(df, ColumnsNamed(df, <<"n","u","m","e","r","a","t","o","r">>), ColumnsNamed(df, <<"p","o","p","u","l","a","t","i","o","n">>))

ZeroPopulation(row_num, pop_col, num, pop) ==
    IF num # <<>> /\ pop # <<>> /\ pop[1] = 0 /\ num[1] > 0
    THEN <<Err(row_num, pop_col, Msg("Population is 0 but vaccinations reported", <<num[1]>>))>>
    ELSE <<>>

ZeroPopulationAt(df, i, num_col, pop_col) ==
    IF pop_col = <<>> THEN <<>>
    ELSE ZeroPopulation((i - 1) + 2, pop_col, ParsedValue(Cell(df, i, num_col)),
                        ParsedValue(Cell(df, i, pop_col)))

\* has_data and all_zero over the row's numerator cells: a cell that does
\* not parse makes all_zero False
AllZero(df, row_num, cells, month_name) ==
    IF /\ \E k \in 1..Len(cells) : NotNa(cells[k])
       /\ \A k \in 1..Len(cells) : NotNa(cells[k]) => ParsedValue(cells[k]) = <<0>>
    THEN <<Err(row_num, <<"n","u","m","e","r","a","t","o","r">>, Msg("All numerators are 0", <<month_name>>))>>
    ELSE <<>>

ZeroLogic(df, num_cols, pop_cols) ==
    Flatten([i \in 1..NRows(df) |->
        Flatten([k \in 1..Len(num_cols) |->
            ZeroPopulationAt(df, i, num_cols[k], MatchingPopCol(pop_cols, num_cols[k]))])
        \o AllZero(df, (i - 1) + 2, [k \in 1..Len(num_cols) |-> Cell(df, i, num_cols[k])],
                   IF HasColumn(df, <<"M","o","n","t","h">>) THEN Cell(df, i, <<"M","o","n","t","h">>)
                   ELSE <<"R","o","w"," ">> \o IntToStr((i - 1) + 2))])

validate_zero_logic(df) ==
    ZeroLogic(df, ColumnsNamed(df, <<"n","u","m","e","r","a","t","o","r">>), ColumnsNamed(df, <<"p","o","p","u","l","a","t","i","o","n">>))

MonthToNum ==
    << <<<<"J","A","N">>, 1>>, <<<<"F","E","B">>, 2>>, <<<<"M","A","R">>, 3>>, <<<<"A","P","R">>, 4>>, <<<<"M","A","Y">>, 5>>, <<<<"J","U","N">>, 6>>,
       <<<<"J","U","L">>, 7>>, <<<<"A","U","G">>, 8>>, <<<<"S","E","P">>, 9>>, <<<<"O","C","T">>, 10>>, <<<<"N","O","V">>, 11>>, <<<<"D","E","C">>, 12>> >>

\* s[2:]
DropTwo(s) == SubSeq(s, 3, Len(s))

\* the season validate_season_mismatch expects for the configured period
\* a season that begins with the calendar year whatever the month
ExpectedSeason_Calendar(expected_year, expected_month) ==
    IntToStr(expected_year) \o <<"-">> \o DropTwo(IntToStr(expected_year + 1))

ExpectedSeason(expected_year, expected_month) ==
    IF DictGet(MonthToNum, expected_month, 1) >= 7
    THEN IntToStr(expected_year) \o <<"-">> \o DropTwo(IntToStr(expected_year + 1))
    ELSE IntToStr(expected_year - 1) \o <<"-">> \o DropTwo(IntToStr(expected_year))

\* the season column validate_season_mismatch picks, <<>> for None
MismatchSeasonColumn(df) ==
    IF HasColumn(df, <<"R","S","V"," ","S","e","a","s","o","n">>) THEN <<"R","S","V"," ","S","e","a","s","o","n">>
    ELSE IF HasColumn(df, <<"F","l","u"," ","S","e","a","s","o","n">>) THEN <<"F","l","u"," ","S","e","a","s","o","n">>
    ELSE IF HasColumn(df, <<"S","e","a","s","o","n">>) THEN <<"S","e","a","s","o","n">>
    ELSE <<>>

\* data_season: the first row's stripped season, <<>> for None
DataSeason(df, season_col) ==
    IF season_col # <<>> /\ NRows(df) > 0 /\ NotNa(Cell(df, 1, season_col))
    THEN Strip(Cell(df, 1, season_col))
    ELSE <<>>

\* whether validate_season_mismatch reaches its load_config() call
SeasonMismatchReadsConfig(df) == DataSeason(df, MismatchSeasonColumn(df)) # <<>>

SeasonCompared(season_col, data_season, config, expected_season) ==
    IF data_season # <<>> /\ data_season # expected_season
    THEN <<Err(0, season_col, Msg("Season mismatch",
                <<data_season, config.expected_year, config.expected_month, expected_season>>))>>
    ELSE <<>>

\* validate_season_mismatch; config is what its load_config() call returned
validate_season_mismatch(df, config) ==
    SeasonCompared(MismatchSeasonColumn(df), DataSeason(df, MismatchSeasonColumn(df)), config,
                   ExpectedSeason(config.expected_year, config.expected_month))

\* validate_data_quality: the cell sweep, then the four further checks
validate_data_quality(df, config) ==
    Flatten([i \in 1..NRows(df) |->
        Flatten([c \in 1..Len(df.columns) |->
            IF NotNa(df.rows[i][c]) THEN CellQuality(df.rows[i][c], (i - 1) + 2, df.columns[c])
            ELSE <<>>])])
    \o validate_copy_paste_errors(df)
    \o validate_suspicious_patterns(df)
    \o validate_zero_logic(df)
    \o validate_season_mismatch(df, config)

\* ------------------------------------------------------------------------
\* Uploaded files the model submits
\* ------------------------------------------------------------------------

\* rows of the short datasets
MaxRows == 3

\* the number of components of the rollup whose numerator or population
\* column is col, 1 for any other column
Weight(specs, col) ==
    Max({1} \cup {Len(specs[s].component_num_cols) :
                     s \in {t \in 1..Len(specs) : col \in {specs[t].rollup_num_col,
                                                           specs[t].rollup_pop_col}}})

\* the value a filled-in template holds at row i of column col: every
\* component numerator is i (cumulative, increasing), every component
\* population 50, every rollup the sum of its components
BaseCell(season_col, season, col, i, weight) ==
    IF col = season_col THEN season
    ELSE IF col = <<"M","o","n","t","h">> THEN VALID_MONTHS[i]
    ELSE IF Strip(col) = <<"R","e","p","o","r","t"," ","D","u","e"," ","D","a","t","e">> THEN <<"2","/","1","5","/","2","0","2","6">>
    ELSE IF Contains(col, <<"n","u","m","e","r","a","t","o","r">>) THEN IntToStr(i * weight)
    ELSE IF Contains(col, <<"p","o","p","u","l","a","t","i","o","n">>) THEN IntToStr(50 * weight)
    ELSE IF Contains(col, <<"D","O","B"," ","r","a","n","g","e">>) THEN <<"r","a","n","g","e">>
    ELSE <<"1","/","3","1","/","2","0","2","6">>

FilledTemplate(cols, n, season_col, season, specs) ==
    [columns |-> cols,
     rows    |-> [i \in 1..n |->
                     [c \in 1..Len(cols) |->
                         BaseCell(season_col, season, cols[c], i, Weight(specs, cols[c]))]]]

\* the template of report_type filled in for the first n months of a season
SeasonDf(report_type, n, season) ==
    FilledTemplate(get_expected_columns(report_type), n, SeasonColumn(report_type), season,
                   RollupSpecs(report_type))

BaseDf(report_type, n) == SeasonDf(report_type, n, <<"2","0","2","5","-","2","6">>)

\* df with the cell at row i of column col replaced by val
SetCell(df, i, col, val) ==
    [df EXCEPT !.rows[i][ColumnIndex(df, col)] = val]

\* df with column old renamed to new
RenameColumn(df, old, new) ==
    [df EXCEPT !.columns[ColumnIndex(df, old)] = new]

\* the file name the grammar gives a report type, site code, year and month
GrammarName(report_type, site, year, month) ==
    FilenamePrefix(report_type) \o <<"_">> \o site \o <<"_">> \o IntToStr(year) \o month \o <<".","c","s","v">>

Upload(name, readable, df) == [name |-> name, readable |-> readable, df |-> df]

NoDf == [columns |-> <<>>, rows |-> <<>>]

\* ------------------------------------------------------------------------
\* State
\* ------------------------------------------------------------------------

VARIABLES
    configFile,   \* data/config.json: [state: "absent" | "partial" | "ok", data: the config written]
    adminPc,      \* the update_config request: "idle" | "writing" (inside save_config)
    adminConfig,  \* the config dict the update_config request holds
    response,     \* the HTTP status of the last update_config response, 0 before any
    pc,           \* where validate_prism_file is
    upload,       \* the file being validated: [name, readable, df]
    result,       \* the ValidationResult: [status, report_type, errors, row_count, season]
    ran,          \* the check sections that have returned, in order
    fnConfig,     \* <<what load_config() returned inside validate_filename>>, <<>> before the call
    smConfig,     \* <<what load_config() returned inside validate_season_mismatch>>, <<>> before the call
    dataFile,     \* data/submissions.json: [state: "absent" | "partial" | "ok", data: the list written]
    requests,     \* the submit requests: [pc, result, submissions, files] for each
    period,       \* a configured period [expected_year, expected_month]
    expected_season, \* <<the season validate_season_mismatch derives from the period>>, <<>> before
    format_ok     \* <<what validate_season_format says of that season>>, <<>> before

vars == <<configFile, adminPc, adminConfig, response, pc, upload, result, ran, fnConfig, smConfig,
          dataFile, requests, period, expected_season, format_ok>>

adminVars == <<configFile, adminPc, adminConfig, response>>

engineVars == <<pc, upload, result, ran, fnConfig, smConfig>>

historyVars == <<dataFile, requests>>

seasonVars == <<period, expected_season, format_ok>>

DefaultConfig == [expected_year |-> DEFAULT_EXPECTED_YEAR, expected_month |-> DEFAULT_EXPECTED_MONTH]

\* load_config: the file's content, the defaults when the file is missing
\* or does not parse (it is empty while save_config is writing it)
load_config(file) == IF file.state = "ok" THEN file.data ELSE DefaultConfig

\* ValidationResult.__init__
NewResult ==
    [status |-> "pending", report_type |-> NoType, errors |-> <<>>, row_count |-> 0, season |-> <<>>]

\* ValidationResult.add_error, for a list of errors
add_errors(res, errors) == [res EXCEPT !.errors = res.errors \o errors]

Sections == <<"filename", "structure", "integrity", "numpop", "rollups", "cumulative", "quality">>

\* ------------------------------------------------------------------------
\* validate_prism_file, one action per step
\* ------------------------------------------------------------------------

\* pd.read_csv and the df.empty test
ReadFile ==
    /\ pc = "read"
    /\ IF ~upload.readable
       THEN /\ result' = [add_errors(result, <<Err(0, <<"f","i","l","e">>, Msg("Cannot read file", <<>>))>>)
                             EXCEPT !.status = "failed"]
            /\ pc' = "returned"
       ELSE IF IsEmpty(upload.df)
       THEN /\ result' = [add_errors(result, <<Err(0, <<"f","i","l","e">>, Msg("File is empty", <<>>))>>)
                             EXCEPT !.status = "failed"]
            /\ pc' = "returned"
       ELSE /\ result' = [result EXCEPT !.row_count = NRows(upload.df)]
            /\ pc' = "classify"
    /\ UNCHANGED <<upload, ran, fnConfig, smConfig, adminVars, historyVars, seasonVars>>

\* a classification step that reports the unclassifiable file and goes on
\* to the checks
Classify_GoesOn ==
    /\ pc = "classify"
    /\ LET report_type == detect_template_type(upload.df)
       IN  IF report_type = NoType
           THEN result' = add_errors(result, <<Err(0, <<"f","i","l","e">>, Msg("Cannot detect template type", <<>>))>>)
           ELSE result' = [result EXCEPT !.report_type = report_type]
    /\ pc' = "filename"
    /\ UNCHANGED <<upload, ran, fnConfig, smConfig, adminVars, historyVars, seasonVars>>

Classify ==
    /\ pc = "classify"
    /\ LET report_type == detect_template_type(upload.df)
       IN  IF report_type = NoType
           THEN /\ result' = [add_errors(result, <<Err(0, <<"f","i","l","e">>, Msg("Cannot detect template type", <<>>))>>)
                                 EXCEPT !.status = "failed"]
                /\ pc' = "returned"
           ELSE /\ result' = [result EXCEPT !.report_type = report_type]
                /\ pc' = "filename"
    /\ UNCHANGED <<upload, ran, fnConfig, smConfig, adminVars, historyVars, seasonVars>>

\* a filename step that takes the report type from a grammatical file name
CheckFilename_Retypes ==
    /\ pc = "filename"
    /\ fnConfig' = <<load_config(configFile)>>
    /\ result' = [add_errors(result, validate_filename(upload.name, result.report_type, upload.df, fnConfig'[1]))
                     EXCEPT !.report_type = IF PatternType(StripExtension(upload.name)) # NoType
                                            THEN PatternType(StripExtension(upload.name)) ELSE @]
    /\ ran' = Append(ran, "filename")
    /\ pc' = "structure"
    /\ UNCHANGED <<upload, smConfig, adminVars, historyVars, seasonVars>>

CheckFilename ==
    /\ pc = "filename"
    /\ fnConfig' = <<load_config(configFile)>>
    /\ result' = add_errors(result, validate_filename(upload.name, result.report_type, upload.df, fnConfig'[1]))
    /\ ran' = Append(ran, "filename")
    /\ pc' = "structure"
    /\ UNCHANGED <<upload, smConfig, adminVars, historyVars, seasonVars>>

CheckStructure ==
    /\ pc = "structure"
    /\ result' = add_errors(result, validate_structure(upload.df, result.report_type))
    /\ ran' = Append(ran, "structure")
    /\ pc' = "integrity"
    /\ UNCHANGED <<upload, fnConfig, smConfig, adminVars, historyVars, seasonVars>>

CheckIntegrity ==
    /\ pc = "integrity"
    /\ result' = add_errors(result, validate_template_integrity(upload.df, result.report_type))
    /\ ran' = Append(ran, "integrity")
    /\ pc' = "numpop"
    /\ UNCHANGED <<upload, fnConfig, smConfig, adminVars, historyVars, seasonVars>>

\* validate_numerator_population: an exception validate_integer_value raises
\* is caught nowhere, so it ends validate_prism_file (and the request)
NumPopStep(outcome) ==
    /\ result' = add_errors(result, outcome.errors)
    /\ IF outcome.raised # ""
       THEN pc' = "raised" /\ ran' = ran
       ELSE pc' = "rollups" /\ ran' = Append(ran, "numpop")

CheckNumPop ==
    /\ pc = "numpop"
    /\ NumPopStep(validate_numerator_population(upload.df))
    /\ UNCHANGED <<upload, fnConfig, smConfig, adminVars, historyVars, seasonVars>>

CheckRollups ==
    /\ pc = "rollups"
    /\ result' = add_errors(result, validate_rollups(upload.df, result.report_type))
    /\ ran' = Append(ran, "rollups")
    /\ pc' = "cumulative"
    /\ UNCHANGED <<upload, fnConfig, smConfig, adminVars, historyVars, seasonVars>>

CheckCumulative ==
    /\ pc = "cumulative"
    /\ result' = add_errors(result, validate_cumulative_data(upload.df))
    /\ ran' = Append(ran, "cumulative")
    /\ pc' = "quality"
    /\ UNCHANGED <<upload, fnConfig, smConfig, adminVars, historyVars, seasonVars>>

\* validate_data_quality; validate_season_mismatch, its last call, reads the
\* configuration again when the data has a season label
CheckQuality ==
    /\ pc = "quality"
    /\ smConfig' = IF SeasonMismatchReadsConfig(upload.df) THEN <<load_config(configFile)>> ELSE smConfig
    /\ result' = add_errors(result, validate_data_quality(upload.df, load_config(configFile)))
    /\ ran' = Append(ran, "quality")
    /\ pc' = "finish"
    /\ UNCHANGED <<upload, fnConfig, adminVars, historyVars, seasonVars>>

\* result.season after "if season_col in df.columns: result.season = ...iloc[0]"
DisplaySeason(df, season_col, season) ==
    IF HasColumn(df, season_col) THEN Cell(df, 1, season_col) ELSE season

\* a final status that lets the advisory about a partial season pass
FinalStatus_SparesAdvisory(errors) ==
    IF \A i \in 1..Len(errors) : errors[i].message.kind = "Only some months of data found"
    THEN "passed" ELSE "failed"

\* the final status
FinalStatus(errors) == IF Len(errors) = 0 THEN "passed" ELSE "failed"

\* a last step that returns a result without errors as it was created
Finish_KeepsPending ==
    /\ pc = "finish"
    /\ result' = [result EXCEPT !.season = DisplaySeason(upload.df, SeasonColumn(result.report_type), result.season),
                                 !.status = IF Len(result.errors) = 0 THEN result.status ELSE "failed"]
    /\ pc' = "returned"
    /\ UNCHANGED <<upload, ran, fnConfig, smConfig, adminVars, historyVars, seasonVars>>

\* the season for display, then the final status
Finish ==
    /\ pc = "finish"
    /\ result' = [result EXCEPT !.season = DisplaySeason(upload.df, SeasonColumn(result.report_type), result.season),
                                 !.status = FinalStatus(result.errors)]
    /\ pc' = "returned"
    /\ UNCHANGED <<upload, ran, fnConfig, smConfig, adminVars, historyVars, seasonVars>>

Engine ==
    \/ ReadFile
    \/ Classify
    \/ CheckFilename
    \/ CheckStructure
    \/ CheckIntegrity
    \/ CheckNumPop
    \/ CheckRollups
    \/ CheckCumulative
    \/ CheckQuality
    \/ Finish

\* ------------------------------------------------------------------------
\* update_config (POST /api/config)
\* ------------------------------------------------------------------------

\* a key of the request's JSON body: absent, or present with a value (a JSON
\* number is written as its decimal text)
Absent == [present |-> FALSE, value |-> <<>>]

Field(value) == [present |-> TRUE, value |-> value]

\* int(v) for the text v of a JSON value: raises unless v is an integer
IntRaises(v) == v = <<>> \/ ~AllDigits(v)

\* the request bodies the model sends
AdminRequests ==
    [password       : {<<"p","r","i","s","m","2","0","2","4">>, <<"w","r","o","n","g">>},
     expected_year  : {Absent, Field(<<"2","0","2","6">>), Field(<<"2","0","3","1">>), Field(<<"2","0","x","6">>)},
     expected_month : {Absent, Field(<<"j","u","l">>), Field(<<"X","Y","Z">>)}]

\* config after "config['expected_year'] = int(data['expected_year'])"
WithYear(config, data) ==
    IF data.expected_year.present
    THEN [config EXCEPT !.expected_year = StrToNat(data.expected_year.value)]
    ELSE config

\* config after "config['expected_month'] = month"
WithMonth(config, data) ==
    IF data.expected_month.present
    THEN [config EXCEPT !.expected_month = Upper(data.expected_month.value)]
    ELSE config

\* the status update_config answers with before it saves anything, 0 when
\* it goes on to save_config
Rejection(data) ==
    IF data.password # <<"p","r","i","s","m","2","0","2","4">> THEN 401
    ELSE IF data.expected_year.present /\ IntRaises(data.expected_year.value) THEN 400
    ELSE IF data.expected_month.present /\ ~In(Upper(data.expected_month.value), FILENAME_MONTHS)
      THEN 400
    ELSE 0

\* update_config up to the point where save_config has opened (and so
\* emptied) the file; 401 and 400 responses return before anything is saved
\* a handler that saves the year as soon as it has read it
UpdateConfig_YearFirst(data) ==
    /\ adminPc = "idle"
    /\ IF data.password # <<"p","r","i","s","m","2","0","2","4">> \/ (data.expected_year.present /\ IntRaises(data.expected_year.value))
       THEN response' = Rejection(data) /\ UNCHANGED <<configFile, adminPc, adminConfig>>
       ELSE IF Rejection(data) # 0
       THEN /\ configFile' = [state |-> "ok", data |-> WithYear(load_config(configFile), data)]
            /\ response' = Rejection(data)
            /\ UNCHANGED <<adminPc, adminConfig>>
       ELSE /\ configFile' = [state |-> "partial", data |-> DefaultConfig]
            /\ adminPc' = "writing"
            /\ adminConfig' = WithMonth(WithYear(load_config(configFile), data), data)
            /\ response' = response
    /\ UNCHANGED <<engineVars, historyVars, seasonVars>>

UpdateConfig(data) ==
    /\ adminPc = "idle"
    /\ IF Rejection(data) # 0
       THEN response' = Rejection(data) /\ UNCHANGED <<configFile, adminPc, adminConfig>>
       ELSE /\ configFile' = [state |-> "partial", data |-> DefaultConfig]
            /\ adminPc' = "writing"
            /\ adminConfig' = WithMonth(WithYear(load_config(configFile), data), data)
            /\ response' = response
    /\ UNCHANGED <<engineVars, historyVars, seasonVars>>

\* json.dump and the close of the file, then the 200 response
FinishUpdate ==
    /\ adminPc = "writing"
    /\ configFile' = [state |-> "ok", data |-> adminConfig]
    /\ adminPc' = "idle"
    /\ adminConfig' = DefaultConfig
    /\ response' = 200
    /\ UNCHANGED <<engineVars, historyVars, seasonVars>>

Admin == (\E data \in AdminRequests : UpdateConfig(data)) \/ FinishUpdate

\* ------------------------------------------------------------------------
\* The server: files are submitted one after the other while the
\* configuration may be updated at any time
\* ------------------------------------------------------------------------

GAA == <<"G","A","A">>

NCA == <<"N","C","A">>

JAN == <<"J","A","N">>

\* an RSV file of MaxRows months with "inf" in a numerator cell
InfDf ==
    SetCell(SetCell(SetCell(BaseDf("RSV", MaxRows),
        1, <<"7","5","+"," ","y","e","a","r","s"," ","n","u","m","e","r","a","t","o","r">>, <<"1",".","0">>),
        2, <<"7","5","+"," ","y","e","a","r","s"," ","n","u","m","e","r","a","t","o","r">>, <<"i","n","f">>),
        3, <<"7","5","+"," ","y","e","a","r","s"," ","n","u","m","e","r","a","t","o","r">>, <<"3",".","0">>)

\* a COVID file of MaxRows months with errors for several sections
FaultyDf ==
    SetCell(SetCell(SetCell(BaseDf("COVID", MaxRows),
        1, <<"5","-","8"," ","y","e","a","r","s"," ","n","u","m","e","r","a","t","o","r">>, <<"5","0","0">>),
        2, <<"6","5","+"," ","y","e","a","r","s"," ","p","o","p","u","l","a","t","i","o","n">>, <<"1",",","2","3","4">>),
        3, <<"V","a","x"," ","d","a","t","e">>, <<"#","R","E","F","!">>)

Uploads ==
    { Upload(GrammarName("COVID", GAA, 2026, JAN), FALSE, NoDf),
      Upload(GrammarName("COVID", GAA, 2026, JAN), TRUE, [columns |-> COVID_COLUMNS, rows |-> <<>>]),
      Upload(GrammarName("COVID", GAA, 2026, JAN), TRUE,
             [columns |-> <<<<"M","o","n","t","h">>, <<"C","o","u","n","t">>>>, rows |-> << <<<<"J","u","l">>, <<"5">>>> >>]),
      Upload(GrammarName("RSV", NCA, 2026, JAN), TRUE, BaseDf("RSV", 12)),
      Upload(GrammarName("RSV", NCA, 2031, JAN), TRUE, BaseDf("RSV", 12)),
      Upload(GrammarName("COVID", GAA, 2025, <<"F","E","B">>), TRUE, BaseDf("COVID", 12)),
      Upload(GrammarName("FLU", GAA, 2026, <<"J","U","L">>), TRUE, SeasonDf("FLU", MaxRows, <<"2","0","2","6","-","2","7">>)),
      Upload(<<"r","s","v","_","N","C","_","2","0","2","6","-","0","1","_","f","i","n","a","l",".","c","s","v">>, TRUE, BaseDf("RSV", MaxRows)),
      Upload(GrammarName("COVID", NCA, 2026, JAN), TRUE, BaseDf("RSV", 12)),
      Upload(GrammarName("RSV", NCA, 2026, JAN), TRUE, InfDf),
      Upload(GrammarName("COVID", GAA, 2026, JAN), TRUE, FaultyDf) }

NoUpload == Upload(<<>>, FALSE, NoDf)

\* the submit requests that may run at a time
Requests == {1, 2}

\* submit: a ValidationResult is created for the next uploaded file
Submit(u) ==
    /\ pc \in {"idle", "returned", "raised"}
    /\ upload' = u
    /\ result' = NewResult
    /\ ran' = <<>>
    /\ fnConfig' = <<>>
    /\ smConfig' = <<>>
    /\ pc' = "read"
    /\ UNCHANGED <<adminVars, historyVars, seasonVars>>

\* the state of the program before any request
InitProgram ==
    /\ configFile = [state |-> "absent", data |-> DefaultConfig]
    /\ adminPc = "idle"
    /\ adminConfig = DefaultConfig
    /\ response = 0
    /\ pc = "idle"
    /\ upload = NoUpload
    /\ result = NewResult
    /\ ran = <<>>
    /\ fnConfig = <<>>
    /\ smConfig = <<>>
    /\ dataFile = [state |-> "absent", data |-> <<>>]
    /\ requests = [r \in Requests |-> [pc |-> "idle", result |-> <<>>, submissions |-> <<>>, files |-> 0]]
    /\ expected_season = <<>>
    /\ format_ok = <<>>

Init == InitProgram /\ period = DefaultConfig

Next ==
    \/ \E u \in Uploads : Submit(u)
    \/ Engine
    \/ Admin

Spec == Init /\ [][Next]_vars

\* ------------------------------------------------------------------------
\* The engine alone, on families of files
\* ------------------------------------------------------------------------

\* what a varied count cell holds: an integer, an integer written as a
\* float, a decimal, text, and NA
CellValues == {<<"2">>, <<"3",".","0">>, <<"2",".","5">>, <<"x">>, NA}

\* what a varied rollup cell holds
RollupValues == {<<"7">>, <<"x">>, NA}

\* df with the cells of column col replaced by vals, row by row
WithColumn(df, col, vals) ==
    [df EXCEPT !.rows = [i \in 1..NRows(df) |->
                            [df.rows[i] EXCEPT ![ColumnIndex(df, col)] = vals[i]]]]

\* RSV files whose "75+ years numerator" column holds any CellValues
CumulativeDfs(df) ==
    {WithColumn(df, <<"7","5","+"," ","y","e","a","r","s"," ","n","u","m","e","r","a","t","o","r">>, vals) : vals \in [1..MaxRows -> CellValues]}

\* the columns the rollup specs name
RollupColumns(specs) ==
    UNION {Range(specs[s].component_num_cols) \cup Range(specs[s].component_pop_cols)
               \cup {specs[s].rollup_num_col, specs[s].rollup_pop_col} : s \in 1..Len(specs)}

\* files with one cell of a rollup or component column replaced
RollupDfs(df, cols) ==
    {SetCell(df, i, col, val) : i \in 1..MaxRows, col \in cols, val \in RollupValues}

\* the column names template detection looks for (one with surrounding
\* blanks) and one it ignores
MarkerColumns == <<<<"R","S","V"," ","S","e","a","s","o","n">>, <<"v","a","x","_","d","a","t","e","_","0","-","7"," ","m","o","n","t","h","s">>, <<" ","F","l","u"," ","S","e","a","s","o","n"," ">>, <<"S","e","a","s","o","n">>, <<"M","o","n","t","h">>>>

\* one-row files holding a subset of MarkerColumns
ClassifyDfs ==
    {[columns |-> SelectIdx(MarkerColumns, keep, 1),
      rows    |-> << [c \in 1..Cardinality(keep) |-> <<"J","u","l">>] >>] :
        keep \in (SUBSET (1..Len(MarkerColumns))) \ {{}}}

\* what the numerator and the population cell of a varied pair hold
PairNumerators == {<<"5","0","0">>, <<"2">>, <<"x">>, <<"1",",","2","3","4">>, NA}

PairPopulations == {<<"4","0","0">>, <<"5","0">>, <<"0">>, <<"x">>, NA}

\* files with the two cells of one age group replaced in one row
PairDfs(df, num_col, pop_col) ==
    {SetCell(SetCell(df, i, num_col, num), i, pop_col, pop) :
        i \in 1..MaxRows, num \in PairNumerators, pop \in PairPopulations}

\* the sum of the cells of row i in the columns cols
RowSum(df, i, cols) == SumSeq([k \in 1..Len(cols) |-> IntVal(Cell(df, i, cols[k]))])

\* what the cell of column col holds once every rollup is the sum of its
\* components; num and pop are the specs col is the rollup column of
RolledCell(df, i, col, specs, num, pop) ==
    IF num # {} THEN IntToStr(RowSum(df, i, specs[Min(num)].component_num_cols))
    ELSE IF pop # {} THEN IntToStr(RowSum(df, i, specs[Min(pop)].component_pop_cols))
    ELSE Cell(df, i, col)

\* df with every rollup cell recomputed from its components
Rolled(df, specs) ==
    [df EXCEPT !.rows = [i \in 1..NRows(df) |-> [c \in 1..Len(df.columns) |->
        RolledCell(df, i, df.columns[c], specs,
                   {s \in 1..Len(specs) : specs[s].rollup_num_col = df.columns[c]},
                   {s \in 1..Len(specs) : specs[s].rollup_pop_col = df.columns[c]})]]]

\* df with 500 vaccinated of a population of 400 in row r of one age
\* group; the later rows go on from 500, with a population of 900
OneViolation(df, r, num_col, pop_col) ==
    [df EXCEPT !.rows = [i \in 1..NRows(df) |->
        IF i < r THEN df.rows[i]
        ELSE [df.rows[i] EXCEPT ![ColumnIndex(df, num_col)] = IntToStr(500 + (i - r)),
                                ![ColumnIndex(df, pop_col)] = IF i = r THEN <<"4","0","0">> ELSE <<"9","0","0">>]]]

\* df with val in the rows from..to of column col
Repeated(df, col, from, to, val) ==
    [df EXCEPT !.rows = [i \in 1..NRows(df) |->
        IF i \in from..to THEN [df.rows[i] EXCEPT ![ColumnIndex(df, col)] = val] ELSE df.rows[i]]]

\* df with val in every cell of the rows from..to whose column is named word
Filled(df, word, from, to, val) ==
    [df EXCEPT !.rows = [i \in 1..NRows(df) |-> [c \in 1..Len(df.columns) |->
        IF i \in from..to /\ Contains(Lower(df.columns[c]), word) THEN val ELSE df.rows[i][c]]]]

\* complete COVID files whose pairs, rollups and numerator columns are in
\* order: a value twice or three times in a row, a first month without
\* vaccinations, everybody of an age group vaccinated, populations in
\* thousands
AdvisoryDfs ==
    {Rolled(df, RollupSpecs("COVID")) : df \in
        {Repeated(BaseDf("COVID", 12), <<"5","-","8"," ","y","e","a","r","s"," ","n","u","m","e","r","a","t","o","r">>, 3, 4, <<"4">>),
         Repeated(BaseDf("COVID", 12), <<"5","-","8"," ","y","e","a","r","s"," ","n","u","m","e","r","a","t","o","r">>, 3, 5, <<"5">>),
         Filled(BaseDf("COVID", 12), <<"n","u","m","e","r","a","t","o","r">>, 1, 1, <<"0">>),
         Repeated(Repeated(BaseDf("COVID", 12), <<"5","-","8"," ","y","e","a","r","s"," ","n","u","m","e","r","a","t","o","r">>, 12, 12, <<"2","0","0">>),
                  <<"5","-","8"," ","y","e","a","r","s"," ","p","o","p","u","l","a","t","i","o","n">>, 12, 12, <<"2","0","0">>),
         Filled(BaseDf("COVID", 12), <<"p","o","p","u","l","a","t","i","o","n">>, 1, 12, <<"1","0","0","0">>)}}

\* complete COVID files, without a finding or with that one violation
SeasonDfs ==
    {BaseDf("COVID", 12)} \cup AdvisoryDfs
    \cup {Rolled(OneViolation(BaseDf("COVID", 12), r, <<"5","-","8"," ","y","e","a","r","s"," ","n","u","m","e","r","a","t","o","r">>,
                              <<"5","-","8"," ","y","e","a","r","s"," ","p","o","p","u","l","a","t","i","o","n">>), RollupSpecs("COVID")) : r \in 1..12}

\* df with one more column, named name, val in all of its cells
AddColumn(df, name, val) ==
    [columns |-> Append(df.columns, name),
     rows |-> [i \in 1..NRows(df) |-> Append(df.rows[i], val)]]

\* df without its column col
DropColumn(df, col) ==
    [columns |-> SelectIdx(df.columns, (1..Len(df.columns)) \ {ColumnIndex(df, col)}, 1),
     rows |-> [i \in 1..NRows(df) |->
                  SelectIdx(df.rows[i], (1..Len(df.columns)) \ {ColumnIndex(df, col)}, 1)]]

\* the names a column of an edited template is found under
Misnamed ==
    {<<"7","5","+","y","e","a","r","s"," ","n","u","m","e","r","a","t","o","r">>, <<"7","5","+"," ","y","e","a","r","s"," ","n","u","m","e","r","a","t","e","r">>, <<"7","5","+"," ","y","e","a","r","s"," ","n","u","m","e","r","a","t","o","r"," ","(","c","u","m","u","l","a","t","i","v","e",")">>,
     <<"7","5","+"," ","Y","E","A","R","S"," ","N","U","M","E","R","A","T","O","R">>, <<" ","7","5","+"," ","y","e","a","r","s"," ","n","u","m","e","r","a","t","o","r"," ">>, <<"D","o","s","e","s"," ","7","5","+">>, <<"U","n","n","a","m","e","d",":"," ","1","8">>, <<>>}

\* RSV files whose header was edited: a column renamed, added or dropped, a
\* column of the previous template, a misspelt column next to a better one
StructureDfs ==
    {RenameColumn(BaseDf("RSV", MaxRows), <<"7","5","+"," ","y","e","a","r","s"," ","n","u","m","e","r","a","t","o","r">>, name) : name \in Misnamed}
    \cup {AddColumn(BaseDf("RSV", MaxRows), name, <<"1">>) :
              name \in {<<"N","o","t","e","s">>, <<"U","n","n","a","m","e","d",":"," ","2","4">>, <<"6","0","-","6","4"," ","y","e","a","r","s"," ","n","u","m","e","r","a","t","o","r">>,
                        <<" ","6","5","-","7","4"," ","Y","e","a","r","s"," ","N","u","m","e","r","a","t","o","r"," ">>}}
    \cup {DropColumn(BaseDf("RSV", MaxRows), <<"M","o","n","t","h">>),
          AddColumn(DropColumn(BaseDf("RSV", MaxRows), <<"M","o","n","t","h">>), <<"N","o","t","e","s">>, <<"1">>),
          DropColumn(AddColumn(BaseDf("RSV", MaxRows), <<"6","0","-","6","4"," ","y","e","a","r","s"," ","n","u","m","e","r","a","t","o","r">>, <<"1">>), <<"M","o","n","t","h">>),
          AddColumn(RenameColumn(BaseDf("RSV", MaxRows), <<"7","5","+"," ","y","e","a","r","s"," ","n","u","m","e","r","a","t","o","r">>,
                                 <<"7","5","+"," ","y","e","a","r","s"," ","n","u","m","e","r","a","t","e","r">>), <<"7","5","+","y","e","a","r","s"," ","n","u","m","e","r","a","t","o","r">>, <<"1">>),
          AddColumn(RenameColumn(BaseDf("RSV", MaxRows), <<"7","5","+"," ","y","e","a","r","s"," ","n","u","m","e","r","a","t","o","r">>,
                                 <<"7","5","+"," ","y","e","a","r","s"," ","n","u","m","e","r","a","t","o","r"," ","(","c","u","m","u","l","a","t","i","v","e",")">>), <<"7","5","+"," ","Y","E","A","R","S"," ","N","U","M","E","R","A","T","O","R">>, <<"1">>)}

\* files with one row where a group's population is 0 and its numerator is
\* not: a plain group and the two rollup groups
ZeroPopulationDfs ==
    {SetCell(SetCell(BaseDf("COVID", MaxRows), r, AgeGroups[g][2], <<"5">>), r, AgeGroups[g][3], <<"0">>) :
        r \in {1, MaxRows}, g \in {3, 16, 17}}

\* files with a numerator repeated over months: three zeros, two pairs of a
\* value around a blank, four times a value
CopyPasteDfs ==
    {Rolled(df, RollupSpecs("COVID")) : df \in
        {Repeated(BaseDf("COVID", 12), <<"5","-","8"," ","y","e","a","r","s"," ","n","u","m","e","r","a","t","o","r">>, 3, 5, <<"0">>),
         Repeated(Repeated(BaseDf("COVID", 12), <<"5","-","8"," ","y","e","a","r","s"," ","n","u","m","e","r","a","t","o","r">>, 3, 7, <<"7">>),
                  <<"5","-","8"," ","y","e","a","r","s"," ","n","u","m","e","r","a","t","o","r">>, 5, 5, NA),
         Repeated(BaseDf("COVID", 12), <<"5","-","8"," ","y","e","a","r","s"," ","n","u","m","e","r","a","t","o","r">>, 3, 6, <<"6">>)}}

\* file names of no grammar: a state alone, a state at the start, a state at
\* the end, a site code in the middle, no site at all
UngrammaticalNames ==
    {<<"N","C",".","c","s","v">>, <<"N","C","_","r","s","v",".","c","s","v">>, <<"r","s","v","_","N","C",".","c","s","v">>, <<"d","a","t","a","_","G","A","A","_","j","a","n",".","c","s","v">>, <<"r","e","p","o","r","t",".","c","s","v">>}

FileUploads ==
    Uploads
    \cup {Upload(GrammarName("RSV", NCA, 2026, JAN), TRUE, df) : df \in StructureDfs}
    \cup {Upload(GrammarName("COVID", GAA, 2026, JAN), TRUE, df) : df \in SeasonDfs}
    \cup {Upload(GrammarName("RSV", NCA, 2026, JAN), TRUE, df) :
             df \in CumulativeDfs(BaseDf("RSV", MaxRows))
                    \cup RollupDfs(BaseDf("RSV", MaxRows), RollupColumns(RollupSpecs("RSV")))
                    \cup PairDfs(BaseDf("RSV", MaxRows), <<"7","5","+"," ","y","e","a","r","s"," ","n","u","m","e","r","a","t","o","r">>,
                                 <<"7","5","+"," ","y","e","a","r","s"," ","p","o","p","u","l","a","t","i","o","n">>)}
    \cup {Upload(GrammarName("COVID", GAA, 2026, JAN), TRUE, df) :
             df \in RollupDfs(BaseDf("COVID", MaxRows), RollupColumns(RollupSpecs("COVID")))
                    \cup ClassifyDfs}
    \cup {Upload(name, TRUE, BaseDf("RSV", MaxRows)) : name \in UngrammaticalNames}
    \cup {Upload(GrammarName("COVID", GAA, 2026, JAN), TRUE, df) : df \in ZeroPopulationDfs}
    \cup {Upload(GrammarName("COVID", GAA, 2026, JAN), TRUE, df) : df \in CopyPasteDfs}

NextFiles ==
    \/ \E u \in FileUploads : Submit(u)
    \/ Engine

SpecFiles == Init /\ [][NextFiles]_vars

\* ------------------------------------------------------------------------
\* Properties of validate_prism_file
\* ------------------------------------------------------------------------

\* validate_prism_file has returned after classifying the dataset
Completed == pc = "returned" /\ result.report_type # NoType

\* validate_prism_file has returned from one of its fatal cases
Fatal == pc = "returned" /\ result.report_type = NoType

\* the errors of a list whose message is of one kind
OfKind(errors, kind) == SelectIdx(errors, {i \in 1..Len(errors) : errors[i].message.kind = kind}, 1)

\* C1: a call that runs the orchestrator to completion returns 'passed' if
\* and only if the accumulated error list is empty, and 'failed' otherwise;
\* no error is exempt.
C1_StatusIffNoErrors ==
    Completed =>
        /\ result.status \in {"passed", "failed"}
        /\ result.status = "passed" <=> result.errors = <<>>

\* a completed run whose only error is the advisory about a partial season
C1_Witness ==
    /\ Completed
    /\ Len(result.errors) = 1
    /\ result.errors[1].message.kind = "Only some months of data found"
    /\ result.status = "failed"

\* C2: in a fatal case (unreadable or empty file, unclassifiable columns)
\* the result is 'failed' with exactly one error, at row 0 with field
\* 'file', and no check section has run or read the configuration.
C2_FatalSingleError ==
    Fatal =>
        /\ result.status = "failed"
        /\ Len(result.errors) = 1
        /\ result.errors[1].row = 0
        /\ result.errors[1].field = <<"f","i","l","e">>
        /\ ran = <<>>
        /\ fnConfig = <<>>
        /\ smConfig = <<>>

\* a readable, non-empty file whose columns match no template has returned
C2_Witness ==
    /\ Fatal
    /\ upload.readable
    /\ ~IsEmpty(upload.df)
    /\ result.errors[1].message.kind = "Cannot detect template type"

\* C3: the status is 'pending' from the creation of the result until it is
\* assigned, it is assigned once and never changed afterwards (a step to
\* pc = "read" creates the next file's result), and a call that returns
\* does so with 'passed' or 'failed'.
C3_StatusMachine ==
    /\ [](pc = "returned" => result.status \in {"passed", "failed"})
    /\ [](pc \notin {"returned", "idle"} => result.status = "pending")
    /\ [][result'.status # result.status => (result.status = "pending" \/ pc' = "read")]_vars

\* a completed run has assigned 'passed'
C3_Witness == Completed /\ ran = Sections /\ result.status = "passed"

\* C4: for every readable, non-empty, classifiable dataset all seven check
\* sections run, in the fixed order, and the errors are only appended to.
C4_AllSectionsRun ==
    (pc \in {"returned", "raised"} /\ result.report_type # NoType) => ran = Sections

\* C5: within the validation of one file the expected period is read once:
\* the filename check and the season-mismatch check use the same period.
C5_OnePeriodPerFile ==
    (fnConfig # <<>> /\ smConfig # <<>>) => fnConfig = smConfig

\* ------------------------------------------------------------------------
\* Properties of template detection
\* ------------------------------------------------------------------------

\* detect_template_type has been applied to the file's columns
Classified == pc \notin {"idle", "read", "classify"} /\ upload.readable /\ ~IsEmpty(upload.df)

\* the trimmed column names of a dataset, as a set
TrimmedColumns(df) == {Strip(df.columns[c]) : c \in 1..Len(df.columns)}

\* the first match in the order RSV marker, 'Flu Season', 'Season'
FirstMatch(cols) ==
    IF <<"R","S","V"," ","S","e","a","s","o","n">> \in cols \/ <<"v","a","x","_","d","a","t","e","_","0","-","7"," ","m","o","n","t","h","s">> \in cols THEN "RSV"
    ELSE IF <<"F","l","u"," ","S","e","a","s","o","n">> \in cols THEN "FLU"
    ELSE IF <<"S","e","a","s","o","n">> \in cols THEN "COVID"
    ELSE NoType

\* C6: the trimmed column set is classified by first match in the order
\* RSV marker ('RSV Season' or 'vax_date_0-7 months'), then 'Flu Season',
\* then 'Season', else unclassifiable; so an RSV marker wins over
\* 'Flu Season' and 'Flu Season' wins over 'Season'.
C6_ClassificationOrder ==
    Classified => result.report_type = FirstMatch(TrimmedColumns(upload.df))

\* a file holding an RSV marker, an untrimmed 'Flu Season' and 'Season' has
\* been classified RSV
C6_Witness ==
    /\ Classified
    /\ {<<"R","S","V"," ","S","e","a","s","o","n">>, <<"F","l","u"," ","S","e","a","s","o","n">>, <<"S","e","a","s","o","n">>} \subseteq TrimmedColumns(upload.df)
    /\ In(<<" ","F","l","u"," ","S","e","a","s","o","n"," ">>, upload.df.columns)
    /\ result.report_type = "RSV"

\* ------------------------------------------------------------------------
\* Properties of the filename check
\* ------------------------------------------------------------------------

\* validate_filename has returned
FilenameChecked == ran # <<>>

\* the errors of a list whose field is 'filename'
FilenameErrors(errors) ==
    SelectIdx(errors, {i \in 1..Len(errors) : errors[i].field = <<"f","i","l","e","n","a","m","e">>}, 1)

\* the data has no Month column or its Month column holds the data month
\* of the filename month
MonthInData(df, month) ==
    HasColumn(df, <<"M","o","n","t","h">>)
        => In(DictGet(MONTH_MAP, month, month), StripAll(DropNa(Column(df, <<"M","o","n","t","h">>))))

\* name is the grammar's filename for a dataset of type report_type, some
\* registry site code and the period of config
BuiltFor(name, report_type, config) ==
    \E s \in 1..Len(VALID_SITE_CODES) :
        name = GrammarName(report_type, VALID_SITE_CODES[s], config.expected_year,
                           config.expected_month)

\* C7: the filename built from the grammar with the dataset's report type,
\* a registry site code and the configured period (the data holding that
\* period's month) gets no error with field 'filename'.
C7_FilenameRoundTrip ==
    (/\ FilenameChecked
     /\ BuiltFor(upload.name, result.report_type, fnConfig[1])
     /\ MonthInData(upload.df, fnConfig[1].expected_month))
        => FilenameErrors(result.errors) = <<>>

\* site code, year and month of a filename that matches a pattern
NameParts(name, type) == MatchGroups(StripExtension(name), FilenamePrefix(type))

\* name is '<prefix>_<site>_<year><month>.csv' with a registry site code
\* and one of the twelve month codes
Conforming(name, type, parts) ==
    /\ type # NoType
    /\ In(parts.site_code, VALID_SITE_CODES)
    /\ In(parts.month, FILENAME_MONTHS)
    /\ name = GrammarName(type, parts.site_code, StrToNat(parts.year), parts.month)

PeriodDiffers(parts, config) ==
    parts.year # IntToStr(config.expected_year) \/ parts.month # config.expected_month

\* errors is the one error naming the submitted period, the accepted
\* period and the filename corrected to the accepted period
OnePeriodError(errors, type, parts, config) ==
    errors = <<Err(0, <<"f","i","l","e","n","a","m","e">>, Msg("Wrong submission period",
                   <<parts.year, parts.month, config.expected_year, config.expected_month,
                     GrammarName(type, parts.site_code, config.expected_year,
                                 config.expected_month)>>))>>

PeriodMismatch(name, type, parts, config) ==
    Conforming(name, type, parts) /\ PeriodDiffers(parts, config)

\* the claim as stated: any conforming filename of another period gets
\* exactly one filename error, the one naming the periods and the
\* corrected filename
C8_AnyPeriodMismatch ==
    (FilenameChecked
     /\ PeriodMismatch(upload.name, PatternType(StripExtension(upload.name)),
                       NameParts(upload.name, PatternType(StripExtension(upload.name))),
                       fnConfig[1]))
        => OnePeriodError(FilenameErrors(result.errors),
                          PatternType(StripExtension(upload.name)),
                          NameParts(upload.name, PatternType(StripExtension(upload.name))),
                          fnConfig[1])

\* the filename's year is one validate_filename accepts, its prefix is the
\* dataset's report type, and the data holds the filename's month
OnlyPeriodWrong(df, report_type, type, parts) ==
    /\ StrToNat(parts.year) \in 2020..2030
    /\ type = report_type
    /\ MonthInData(df, parts.month)

\* C8: a grammar-conforming filename with a registry site code, a year
\* within 2020..2030, the prefix of the dataset's report type and a month
\* the data holds, whose (year, month) differs from the configured period,
\* gets exactly one filename error, and that error names the submitted
\* period, the accepted period and the corrected filename
\* '<prefix>_<site>_<expectedYear><expectedMonth>.csv'.
C8_PeriodMismatch ==
    (FilenameChecked
     /\ PeriodMismatch(upload.name, PatternType(StripExtension(upload.name)),
                       NameParts(upload.name, PatternType(StripExtension(upload.name))),
                       fnConfig[1])
     /\ OnlyPeriodWrong(upload.df, result.report_type,
                        PatternType(StripExtension(upload.name)),
                        NameParts(upload.name, PatternType(StripExtension(upload.name)))))
        => OnePeriodError(FilenameErrors(result.errors),
                          PatternType(StripExtension(upload.name)),
                          NameParts(upload.name, PatternType(StripExtension(upload.name))),
                          fnConfig[1])

\* MonthlyAllCOVID_GAA_2025FEB.csv checked under 2026/JAN is told to
\* rename to MonthlyAllCOVID_GAA_2026JAN.csv
C8_Witness ==
    /\ FilenameChecked
    /\ upload.name = <<"M","o","n","t","h","l","y","A","l","l","C","O","V","I","D","_","G","A","A","_","2","0","2","5","F","E","B",".","c","s","v">>
    /\ fnConfig = <<[expected_year |-> 2026, expected_month |-> <<"J","A","N">>]>>
    /\ Len(FilenameErrors(result.errors)) = 1
    /\ FilenameErrors(result.errors)[1].message.kind = "Wrong submission period"
    /\ FilenameErrors(result.errors)[1].message.args[5] = <<"M","o","n","t","h","l","y","A","l","l","C","O","V","I","D","_","G","A","A","_","2","0","2","6","J","A","N",".","c","s","v">>

\* ------------------------------------------------------------------------
\* Properties of the rollup and cumulative checks
\* ------------------------------------------------------------------------

\* the cell at row i of column col is present
Present(df, i, col) == HasColumn(df, col) /\ NotNa(Cell(df, i, col))

\* the cell's text is a number without a fractional part
Integral(val) == ParseFloat(val).kind = "num" /\ ~ParseFloat(val).frac

\* how many errors of one kind a list holds for a row and a field
ErrorCount(errors, kind, row_num, field) ==
    Cardinality({k \in 1..Len(errors) :
                    /\ errors[k].message.kind = kind
                    /\ errors[k].row = row_num
                    /\ errors[k].field = field})

\* the rollup property for one row, rollup column and list of component
\* columns, count being the number of rollup errors at that row and column
RollupRule(df, i, rollup_col, component_cols, count) ==
    /\ (/\ Present(df, i, rollup_col)
        /\ Integral(Cell(df, i, rollup_col))
        /\ \A k \in 1..Len(component_cols) :
               Present(df, i, component_cols[k]) /\ Integral(Cell(df, i, component_cols[k])))
           => count = IF IntVal(Cell(df, i, rollup_col))
                           # SumSeq([k \in 1..Len(component_cols) |->
                                        IntVal(Cell(df, i, component_cols[k]))])
                      THEN 1 ELSE 0
    /\ (\E k \in 1..Len(component_cols) : ~Present(df, i, component_cols[k]))
           => count = 0

RollupRuleAt(df, errors, i, rollup_col, component_cols) ==
    RollupRule(df, i, rollup_col, component_cols,
               ErrorCount(errors, "Rollup does not equal sum of components", (i - 1) + 2,
                          rollup_col))

RollupRules(df, errors, specs) ==
    \A i \in 1..NRows(df) : \A s \in 1..Len(specs) :
        /\ RollupRuleAt(df, errors, i, specs[s].rollup_num_col, specs[s].component_num_cols)
        /\ RollupRuleAt(df, errors, i, specs[s].rollup_pop_col, specs[s].component_pop_cols)

\* C9: for every row and rollup spec of the report type, on the numerator
\* and on the population side: with the rollup cell and all component
\* cells present and integral there is exactly one rollup error at the row
\* when the rollup differs from the sum of the components and none when it
\* equals it; with a component cell absent there is none.
C9_RollupRule ==
    In("rollups", ran) => RollupRules(upload.df, result.errors, RollupSpecs(result.report_type))

\* one rollup error stands at row 2, where the components 1 and 2 do not
\* add up to the rollup 2, none at row 3, where 2 and 2 add up to 4, and
\* none at row 4, where a component is absent
C9_Witness ==
    /\ In("rollups", ran)
    /\ upload.df.columns = RSV_COLUMNS
    /\ Column(upload.df, <<"6","0","-","7","4"," ","y","e","a","r","s"," ","n","u","m","e","r","a","t","o","r">>) = <<<<"1">>, <<"2">>, <<"3">>>>
    /\ Column(upload.df, <<"7","5","+"," ","y","e","a","r","s"," ","n","u","m","e","r","a","t","o","r">>) = <<<<"2">>, <<"2">>, NA>>
    /\ Column(upload.df, <<"6","0","+"," ","y","e","a","r","s"," ","n","u","m","e","r","a","t","o","r">>) = <<<<"2">>, <<"4">>, <<"6">>>>
    /\ ErrorCount(result.errors, "Rollup does not equal sum of components", 2,
                  <<"6","0","+"," ","y","e","a","r","s"," ","n","u","m","e","r","a","t","o","r">>) = 1
    /\ ErrorCount(result.errors, "Rollup does not equal sum of components", 3,
                  <<"6","0","+"," ","y","e","a","r","s"," ","n","u","m","e","r","a","t","o","r">>) = 0
    /\ ErrorCount(result.errors, "Rollup does not equal sum of components", 4,
                  <<"6","0","+"," ","y","e","a","r","s"," ","n","u","m","e","r","a","t","o","r">>) = 0

\* the monotonicity property for the cells prev_cell and cell of two
\* successive rows, count being the decrease errors at the later row
DecreaseRule(prev_cell, cell, count) ==
    (NotNa(prev_cell) /\ NotNa(cell) /\ Parses(prev_cell) /\ Parses(cell))
        => count = IF IntVal(cell) < IntVal(prev_cell) THEN 1 ELSE 0

DecreaseRules(df, errors, num_cols) ==
    \A c \in 1..Len(num_cols) : \A i \in 1..(NRows(df) - 1) :
        DecreaseRule(Cell(df, i, num_cols[c]), Cell(df, i + 1, num_cols[c]),
                     ErrorCount(errors, "Cumulative value decreased", i + 2, num_cols[c]))

\* C10: for every numerator-named column, when the values of two
\* successive rows both parse (as int(float(cell))) there is exactly one
\* decrease error at the later row if its value is the smaller one, and
\* none if it is greater than or equal to the earlier row's.
C10_Monotonic ==
    In("cumulative", ran)
        => DecreaseRules(upload.df, result.errors, ColumnsNamed(upload.df, <<"n","u","m","e","r","a","t","o","r">>))

\* 3.0, 2, 2.5 are the values 3, 2, 2: one decrease error at row 3 of the
\* file, none at row 4
C10_Witness ==
    /\ In("cumulative", ran)
    /\ upload.df.columns = RSV_COLUMNS
    /\ Column(upload.df, <<"7","5","+"," ","y","e","a","r","s"," ","n","u","m","e","r","a","t","o","r">>) = <<<<"3",".","0">>, <<"2">>, <<"2",".","5">>>>
    /\ ErrorCount(result.errors, "Cumulative value decreased", 3, <<"7","5","+"," ","y","e","a","r","s"," ","n","u","m","e","r","a","t","o","r">>) = 1
    /\ ErrorCount(result.errors, "Cumulative value decreased", 4, <<"7","5","+"," ","y","e","a","r","s"," ","n","u","m","e","r","a","t","o","r">>) = 0

\* ------------------------------------------------------------------------
\* Properties of the numerator / population checks
\* ------------------------------------------------------------------------

\* validate_numerator_population has returned
NumPopChecked == pc = "rollups"

\* the pairing property for the two cells of one age group in one row:
\* exceeds and required count the 'numerator exceeds population' errors at
\* the numerator column and the 'population required' errors at the
\* population column of that row
PairRule(num_val, pop_val, exceeds, required) ==
    /\ (NotNa(num_val) /\ NotNa(pop_val) /\ Parses(num_val) /\ Parses(pop_val)
        /\ IntVal(num_val) > IntVal(pop_val))
           => exceeds >= 1
    /\ (NotNa(num_val) /\ ~NotNa(pop_val)) => required = 1

PairRuleAt(df, errors, i, num_col, pop_col) ==
    (HasColumn(df, num_col) /\ HasColumn(df, pop_col))
        => PairRule(Cell(df, i, num_col), Cell(df, i, pop_col),
                    ErrorCount(errors, "Numerator exceeds population", (i - 1) + 2, num_col),
                    ErrorCount(errors, "Population required when numerator is provided",
                               (i - 1) + 2, pop_col))

PairRules(df, errors, age_groups) ==
    \A i \in 1..NRows(df) : \A g \in 1..Len(age_groups) :
        PairRuleAt(df, errors, i, age_groups[g][2], age_groups[g][3])

\* C11: for every age-group pair whose two columns are in the file and
\* every row: when numerator and population both parse and the numerator
\* is the greater, an error is emitted for that row and pair; when the
\* numerator is present and the population absent, exactly one
\* 'population required' error is emitted for that row and pair.
C11_PairingRule == NumPopChecked => PairRules(upload.df, result.errors, AgeGroups)

\* 500 vaccinated of 400 in row 2 of the file, and the error for it
C11_Witness ==
    /\ NumPopChecked
    /\ upload.df.columns = RSV_COLUMNS
    /\ Cell(upload.df, 1, <<"7","5","+"," ","y","e","a","r","s"," ","n","u","m","e","r","a","t","o","r">>) = <<"5","0","0">>
    /\ Cell(upload.df, 1, <<"7","5","+"," ","y","e","a","r","s"," ","p","o","p","u","l","a","t","i","o","n">>) = <<"4","0","0">>
    /\ ErrorCount(result.errors, "Numerator exceeds population", 2, <<"7","5","+"," ","y","e","a","r","s"," ","n","u","m","e","r","a","t","o","r">>) = 1

\* the rows and age groups of df whose numerator exceeds the population
Violations(df, age_groups) ==
    {<<i, g>> \in (1..NRows(df)) \X (1..Len(age_groups)) :
        /\ HasColumn(df, age_groups[g][2]) /\ HasColumn(df, age_groups[g][3])
        /\ NotNa(Cell(df, i, age_groups[g][2])) /\ NotNa(Cell(df, i, age_groups[g][3]))
        /\ Parses(Cell(df, i, age_groups[g][2])) /\ Parses(Cell(df, i, age_groups[g][3]))
        /\ IntVal(Cell(df, i, age_groups[g][2])) > IntVal(Cell(df, i, age_groups[g][3]))}

\* the errors that are not findings of the pairing comparison
ErrorsBeside(errors) ==
    SelectIdx(errors,
              {k \in 1..Len(errors) :
                  errors[k].message.kind \notin {"Numerator exceeds population",
                                                 "Vaccination rate exceeds 100%"}}, 1)

\* a completed run on a file whose one finding is the pairing violation v,
\* 500 vaccinated of a population of 400
OnlyViolation(df, errors, age_groups, v) ==
    /\ Completed
    /\ Violations(df, age_groups) = {v}
    /\ Cell(df, v[1], age_groups[v[2]][2]) = <<"5","0","0">>
    /\ Cell(df, v[1], age_groups[v[2]][3]) = <<"4","0","0">>
    /\ ErrorsBeside(errors) = <<>>

\* the claim as stated: the violation at data row r gives exactly one
\* error, at row r + 1 with the numerator column as field, and 'failed'
C12_OneError ==
    \A v \in Violations(upload.df, AgeGroups) :
        OnlyViolation(upload.df, result.errors, AgeGroups, v)
            => /\ Len(result.errors) = 1
               /\ result.errors[1].row = v[1] + 1
               /\ result.errors[1].field = AgeGroups[v[2]][2]
               /\ result.status = "failed"

\* C12: in an otherwise error-free file a single pairing violation at data
\* row r (numerator 500 > population 400) produces exactly two errors,
\* 'numerator exceeds population' and 'vaccination rate exceeds 100%',
\* both at row r + 1 with the numerator column as field, and 'failed'.
C12_TwoErrors ==
    \A v \in Violations(upload.df, AgeGroups) :
        OnlyViolation(upload.df, result.errors, AgeGroups, v)
            => /\ Len(result.errors) = 2
               /\ result.errors[1].message.kind = "Numerator exceeds population"
               /\ result.errors[2].message.kind = "Vaccination rate exceeds 100%"
               /\ \A k \in 1..2 : /\ result.errors[k].row = v[1] + 1
                                  /\ result.errors[k].field = AgeGroups[v[2]][2]
               /\ result.status = "failed"

\* the violation in data row 5 of '5-8 years' is reported at row 6
C12_Witness ==
    /\ OnlyViolation(upload.df, result.errors, AgeGroups, <<5, 3>>)
    /\ NRows(upload.df) = 12
    /\ Len(result.errors) = 2
    /\ result.errors[1].row = 6
    /\ result.errors[1].field = <<"5","-","8"," ","y","e","a","r","s"," ","n","u","m","e","r","a","t","o","r">>

\* df with its count cells blanked: what the template pre-fills
Prefilled(df) ==
    [df EXCEPT !.rows = [i \in 1..NRows(df) |-> [c \in 1..Len(df.columns) |->
        IF IsNumericColumn(df.columns[c]) THEN NA ELSE df.rows[i][c]]]]

\* every count cell is a plain number within the limit of its kind
PlainCounts(df) ==
    \A i \in 1..NRows(df) : \A c \in 1..Len(df.columns) :
        IsNumericColumn(df.columns[c])
            => /\ IsDigitText(df.rows[i][c])
               /\ IntVal(df.rows[i][c]) <=
                      (IF Contains(Lower(df.columns[c]), <<"n","u","m","e","r","a","t","o","r">>) THEN NumeratorLimit
                       ELSE PopulationLimit)

\* a 12-row COVID file under a correct filename for the default period,
\* with the correct schema: the template's columns and pre-filled cells,
\* and plain counts
SeasonFile(u) ==
    /\ \E site \in {GAA, NCA} :
           u.name = GrammarName("COVID", site, DEFAULT_EXPECTED_YEAR, DEFAULT_EXPECTED_MONTH)
    /\ NRows(u.df) = 12
    /\ u.df.columns = COVID_COLUMNS
    /\ Prefilled(u.df) = Prefilled(BaseDf("COVID", 12))
    /\ PlainCounts(u.df)

\* every rollup cell is the sum of its components
RollupsExact(df, specs) ==
    \A s \in 1..Len(specs) : \A i \in 1..NRows(df) :
        /\ IntVal(Cell(df, i, specs[s].rollup_num_col)) = RowSum(df, i, specs[s].component_num_cols)
        /\ IntVal(Cell(df, i, specs[s].rollup_pop_col)) = RowSum(df, i, specs[s].component_pop_cols)

\* no numerator column goes down from a row to the next
NonDecreasing(df, num_cols) ==
    \A k \in 1..Len(num_cols) : \A i \in 1..(NRows(df) - 1) :
        IntVal(Cell(df, i, num_cols[k])) <= IntVal(Cell(df, i + 1, num_cols[k]))

\* the claim's conditions on the data
InOrder(u) ==
    /\ SeasonFile(u)
    /\ Violations(u.df, AgeGroups) = {}
    /\ RollupsExact(u.df, RollupSpecs("COVID"))
    /\ NonDecreasing(u.df, ColumnsNamed(u.df, <<"n","u","m","e","r","a","t","o","r">>))

\* a numerator column repeats a positive value in three consecutive rows
RepeatsValue(df, num_cols) ==
    \E k \in 1..Len(num_cols) : \E i \in 1..(NRows(df) - 2) :
        /\ IntVal(Cell(df, i, num_cols[k])) > 0
        /\ IntVal(Cell(df, i, num_cols[k])) = IntVal(Cell(df, i + 1, num_cols[k]))
        /\ IntVal(Cell(df, i, num_cols[k])) = IntVal(Cell(df, i + 2, num_cols[k]))

\* a row whose numerators are all zero
HasZeroRow(df, num_cols) ==
    \E i \in 1..NRows(df) : \A k \in 1..Len(num_cols) : IntVal(Cell(df, i, num_cols[k])) = 0

\* a numerator above 100 that equals the population of its column pair
HasFullRate(df, num_cols) ==
    \E i \in 1..NRows(df) : \E k \in 1..Len(num_cols) :
        /\ HasColumn(df, Replace(num_cols[k], <<"n","u","m","e","r","a","t","o","r">>, <<"p","o","p","u","l","a","t","i","o","n">>))
        /\ IntVal(Cell(df, i, num_cols[k])) > 100
        /\ IntVal(Cell(df, i, num_cols[k])) =
               IntVal(Cell(df, i, Replace(num_cols[k], <<"n","u","m","e","r","a","t","o","r">>, <<"p","o","p","u","l","a","t","i","o","n">>)))

\* every population is zero or a multiple of 1000
AllThousands(df, pop_cols) ==
    \A i \in 1..NRows(df) : \A k \in 1..Len(pop_cols) :
        IntVal(Cell(df, i, pop_cols[k])) % 1000 = 0

\* one of the advisory data-quality checks applies to the data
Advisory(df) ==
    \/ RepeatsValue(df, ColumnsNamed(df, <<"n","u","m","e","r","a","t","o","r">>))
    \/ HasZeroRow(df, ColumnsNamed(df, <<"n","u","m","e","r","a","t","o","r">>))
    \/ HasFullRate(df, ColumnsNamed(df, <<"n","u","m","e","r","a","t","o","r">>))
    \/ AllThousands(df, ColumnsNamed(df, <<"p","o","p","u","l","a","t","i","o","n">>))

CommaNumber(val) ==
    /\ "," \in Range(val)
    /\ \E k \in 1..Len(val) : IsDigit(val[k])
    /\ \A k \in 1..Len(val) : IsDigit(val[k]) \/ val[k] = ","

\* the errors of a list for one row and one field
ErrorsAt(errors, row_num, field) ==
    SelectIdx(errors, {k \in 1..Len(errors) : errors[k].row = row_num /\ errors[k].field = field}, 1)

\* the parsed values of a column without its row i, in row order
OtherValues(df, i, col) ==
    Flatten([j \in 1..NRows(df) |-> IF j = i THEN <<>> ELSE ParsedValue(Cell(df, j, col))])

\* the cell of row i in the numerator column of a pair is left out of the
\* checks of its values: its only error is the one about the comma, no
\* rollup it is a component of is compared in its row, and the column's
\* cumulative check passes when the other rows are in order
LeftOut(df, errors, i, num_col, specs) ==
    /\ Len(ErrorsAt(errors, (i - 1) + 2, num_col)) = 1
    /\ ErrorCount(errors, "Remove comma formatting", (i - 1) + 2, num_col) = 1
    /\ \A s \in 1..Len(specs) :
           In(num_col, specs[s].component_num_cols)
               => ErrorCount(errors, "Rollup does not equal sum of components", (i - 1) + 2,
                             specs[s].rollup_num_col) = 0
    /\ (\A k \in 1..(Len(OtherValues(df, i, num_col)) - 1) :
            OtherValues(df, i, num_col)[k] <= OtherValues(df, i, num_col)[k + 1])
           => \A j \in 1..NRows(df) :
                  ErrorCount(errors, "Cumulative value decreased", (j - 1) + 2, num_col) = 0

\* the numerator cells of df that hold a number with commas
CommaCells(df, age_groups) ==
    {<<i, g>> \in (1..NRows(df)) \X (1..Len(age_groups)) :
        /\ HasColumn(df, age_groups[g][2]) /\ HasColumn(df, age_groups[g][3])
        /\ CommaNumber(Cell(df, i, age_groups[g][2]))}

\* the claim as stated: one error for the cell, and no part in the range,
\* pairing, rollup or cumulative checks of its row
C14_CommaCellNoPart ==
    Completed => \A v \in CommaCells(upload.df, AgeGroups) :
        /\ LeftOut(upload.df, result.errors, v[1], AgeGroups[v[2]][2], RollupSpecs(result.report_type))
        /\ ErrorCount(result.errors, "Population required when numerator is provided",
                      (v[1] - 1) + 2, AgeGroups[v[2]][3]) = 0

\* C14: a numerator cell containing a thousands-separator comma (e.g.
\* "1,234") produces exactly one error for that cell over the whole
\* validation run, the 'remove comma formatting' error, and the cell takes
\* no part in the range, numerator-against-population, rollup or cumulative
\* checks of its row; it still counts as a provided numerator, so that an
\* absent population of its pair is reported as required.
C14_CommaCellCounted ==
    Completed => \A v \in CommaCells(upload.df, AgeGroups) :
        /\ LeftOut(upload.df, result.errors, v[1], AgeGroups[v[2]][2], RollupSpecs(result.report_type))
        /\ ErrorCount(result.errors, "Population required when numerator is provided",
                      (v[1] - 1) + 2, AgeGroups[v[2]][3])
               = (IF NotNa(Cell(upload.df, v[1], AgeGroups[v[2]][3])) THEN 0 ELSE 1)

\* "1,234" in the first row of '75+ years numerator', the population absent
C14_Witness ==
    /\ Completed
    /\ upload.df.columns = RSV_COLUMNS
    /\ Cell(upload.df, 1, <<"7","5","+"," ","y","e","a","r","s"," ","n","u","m","e","r","a","t","o","r">>) = <<"1",",","2","3","4">>
    /\ Cell(upload.df, 1, <<"7","5","+"," ","y","e","a","r","s"," ","p","o","p","u","l","a","t","i","o","n">>) = NA
    /\ ErrorCount(result.errors, "Remove comma formatting", 2, <<"7","5","+"," ","y","e","a","r","s"," ","n","u","m","e","r","a","t","o","r">>) = 1
    /\ ErrorCount(result.errors, "Population required when numerator is provided", 2,
                  <<"7","5","+"," ","y","e","a","r","s"," ","p","o","p","u","l","a","t","i","o","n">>) = 1

\* validate_structure has returned and the next section has not begun
StructureChecked == pc = "integrity"

\* a column of the file is one of the previous template of its type
HasLegacyColumn(columns, old) ==
    \E c \in 1..Len(columns) : \E o \in 1..Len(old) : Strip(Lower(columns[c])) = Lower(old[o])

\* a column name the extra-column check calls blank
BlankName(name) == name = <<>> \/ StartsWith(name, <<"U","n","n","a","m","e","d",":">>)

\* how many missing-type errors a list holds for an expected column
MissingCount(errors, expected) ==
    Cardinality({k \in 1..Len(errors) :
        \/ errors[k].message.kind = "Column typo?" /\ errors[k].message.args[2] = expected
        \/ errors[k].message.kind = "Missing column" /\ errors[k].message.args[1] = expected})

\* how many extra-type errors a list holds that name a column of the file
ExtraCount(errors, actual) ==
    Cardinality({k \in 1..Len(errors) :
        /\ errors[k].message.kind \in {"Unexpected column - did you mean", "Unexpected column"}
        /\ errors[k].message.args[1] = actual})

\* how many errors of each of some kinds a list holds
KindCount(errors, kinds) == Cardinality({k \in 1..Len(errors) : errors[k].message.kind \in kinds})

\* the missing-type and extra-type errors are those of the two differences
\* of the trimmed names: one for each expected name the file lacks, one for
\* each column of the file the template lacks (the blank ones are not
\* named), and no other
SymmetricDifference(errors, actual, expected) ==
    /\ \A e \in 1..Len(expected) :
           MissingCount(errors, expected[e]) = (IF In(expected[e], actual) THEN 0 ELSE 1)
    /\ KindCount(errors, {"Column typo?", "Missing column"})
           = Cardinality({e \in 1..Len(expected) : ~In(expected[e], actual)})
    /\ \A a \in 1..Len(actual) :
           ~BlankName(actual[a])
               => ExtraCount(errors, actual[a])
                      = (IF In(actual[a], expected) THEN 0
                         ELSE Cardinality({b \in 1..Len(actual) : actual[b] = actual[a]}))
    /\ KindCount(errors, {"Extra blank column detected"})
           = Cardinality({a \in 1..Len(actual) : BlankName(actual[a]) /\ ~In(actual[a], expected)})
    /\ KindCount(errors, {"Unexpected column - did you mean", "Unexpected column"})
           = Cardinality({a \in 1..Len(actual) : ~BlankName(actual[a]) /\ ~In(actual[a], expected)})

\* C15: for any classified dataset without a legacy column,
\* validate_structure emits a missing-type error (plain missing or possible
\* typo) for exactly the expected trimmed columns that are absent from the
\* actual trimmed column set, and an extra-type error (blank column,
\* did-you-mean or unexpected) for exactly the actual trimmed columns that
\* are absent from the expected trimmed set; columns in both sets get no
\* such error.
C15_SymmetricDifference ==
    (StructureChecked /\ ~HasLegacyColumn(upload.df.columns, OldColumns(result.report_type)))
        => SymmetricDifference(result.errors, StripAll(upload.df.columns),
                               StripAll(get_expected_columns(result.report_type)))

\* a file with '75+ years numerater' for '75+ years numerator', and with
\* '75+years numerator' added: one missing-type and two extra-type errors
C15_Witness ==
    /\ StructureChecked
    /\ In(<<"7","5","+"," ","y","e","a","r","s"," ","n","u","m","e","r","a","t","e","r">>, upload.df.columns)
    /\ In(<<"7","5","+","y","e","a","r","s"," ","n","u","m","e","r","a","t","o","r">>, upload.df.columns)
    /\ MissingCount(result.errors, <<"7","5","+"," ","y","e","a","r","s"," ","n","u","m","e","r","a","t","o","r">>) = 1
    /\ ExtraCount(result.errors, <<"7","5","+"," ","y","e","a","r","s"," ","n","u","m","e","r","a","t","e","r">>) = 1
    /\ ExtraCount(result.errors, <<"7","5","+","y","e","a","r","s"," ","n","u","m","e","r","a","t","o","r">>) = 1

\* the column count the claim gives for a type
ClaimedColumnCount(report_type) ==
    CASE report_type = "COVID" -> 36
      [] report_type = "FLU"   -> 34
      [] report_type = "RSV"   -> 21
      [] OTHER                 -> 0

\* the column-count-mismatch error is in the list exactly when the file's
\* column count is not count
CountMismatchIff(errors, columns, count) ==
    KindCount(errors, {"Column count mismatch"}) = (IF Len(columns) # count THEN 1 ELSE 0)

\* the claim as stated: 36, 34 and 21 columns, and the count error if and
\* only if the file's column count differs from that number
C16_ClaimedCounts ==
    /\ \A t \in {"COVID", "FLU", "RSV"} : Len(get_expected_columns(t)) = ClaimedColumnCount(t)
    /\ StructureChecked
           => CountMismatchIff(result.errors, upload.df.columns,
                               ClaimedColumnCount(result.report_type))

\* C16: the expected column contract has exactly 37 columns for COVID, 37
\* for FLU and 24 for RSV, and validate_structure, unless it finds a column
\* of the previous template and stops there, emits the column-count-mismatch
\* error if and only if the file's actual column count differs from that
\* number for its classified type.
C16_ColumnCounts ==
    /\ Len(get_expected_columns("COVID")) = 37
    /\ Len(get_expected_columns("FLU")) = 37
    /\ Len(get_expected_columns("RSV")) = 24
    /\ StructureChecked
           => CountMismatchIff(result.errors, upload.df.columns,
                  IF HasLegacyColumn(upload.df.columns, OldColumns(result.report_type))
                  THEN Len(upload.df.columns)
                  ELSE Len(get_expected_columns(result.report_type)))

\* an RSV file of 25 columns, none of the previous template, has the error
C16_Witness ==
    /\ StructureChecked
    /\ result.report_type = "RSV"
    /\ Len(upload.df.columns) = 25
    /\ ~HasLegacyColumn(upload.df.columns, OldColumns("RSV"))
    /\ KindCount(result.errors, {"Column count mismatch"}) = 1

\* the messages of the three fatal cases
FatalKinds == {"Cannot read file", "File is empty", "Cannot detect template type"}

\* the result carries an error of a check that is not fatal
HasNonFatalError(res) == \E k \in 1..Len(res.errors) : res.errors[k].message.kind \notin FatalKinds

\* a step changes the report type of the result only from null, in the
\* classification step (a new result starts with null)
AssignedOnce ==
    (result'.report_type # result.report_type)
        => \/ result' = NewResult
           \/ pc = "classify" /\ result.report_type = NoType /\ result'.report_type # NoType

\* a result with an error of a non-fatal check has a type
TypedWhenChecked == HasNonFatalError(result) => result.report_type \in {"COVID", "FLU", "RSV"}

\* a returned result without a type has failed with a fatal error
NullOnlyWhenFatal ==
    (pc = "returned" /\ result.report_type = NoType)
        => /\ result.status = "failed"
           /\ Len(result.errors) = 1
           /\ result.errors[1].message.kind \in FatalKinds

\* C17: report_type is assigned at most once, by the classifier; every
\* result carrying an error from any non-fatal check has report_type in
\* {COVID, FLU, RSV}; report_type is null only for fatally failed results.
C17_TypeAssignedOnce == [][AssignedOnce]_vars /\ [](TypedWhenChecked /\ NullOnlyWhenFatal)

\* a file classified as RSV under a COVID name has a filename error, and
\* its type is still RSV when it has been checked
C17_Witness ==
    /\ Completed
    /\ PatternType(StripExtension(upload.name)) = "COVID"
    /\ result.report_type = "RSV"
    /\ HasNonFatalError(result)

\* the two cells of a pair parse and the numerator is the greater
Exceeds(num_val, pop_val) ==
    /\ NotNa(num_val) /\ NotNa(pop_val)
    /\ Parses(num_val) /\ Parses(pop_val)
    /\ IntVal(num_val) > IntVal(pop_val)

\* exceeds and rate are the numbers of the two errors for a pair of cells:
\* both errors whenever the numerator is the greater, and never one alone
BothOrNeither(num_val, pop_val, exceeds, rate) ==
    /\ Exceeds(num_val, pop_val) => (exceeds = 1 /\ rate = 1)
    /\ exceeds = rate

\* both errors when the numerator is the greater and the population above
\* 0, the first alone when the population is not above 0, else neither
BothWhenPositive(num_val, pop_val, exceeds, rate) ==
    /\ exceeds = (IF Exceeds(num_val, pop_val) THEN 1 ELSE 0)
    /\ rate = (IF Exceeds(num_val, pop_val) /\ IntVal(pop_val) > 0 THEN 1 ELSE 0)

\* the claim as stated: the two errors are emitted together whenever both
\* cells parse and the numerator is the greater, and neither without the other
C18_AlwaysTogether ==
    NumPopChecked => \A i \in 1..NRows(upload.df) : \A g \in 1..Len(AgeGroups) :
        (HasColumn(upload.df, AgeGroups[g][2]) /\ HasColumn(upload.df, AgeGroups[g][3]))
            => BothOrNeither(Cell(upload.df, i, AgeGroups[g][2]), Cell(upload.df, i, AgeGroups[g][3]),
                   ErrorCount(result.errors, "Numerator exceeds population", (i - 1) + 2, AgeGroups[g][2]),
                   ErrorCount(result.errors, "Vaccination rate exceeds 100%", (i - 1) + 2, AgeGroups[g][2]))

\* C18: whenever numerator and population both parse, numerator >
\* population and the population is above 0, both 'numerator exceeds
\* population' and 'vaccination rate exceeds 100%' are emitted together;
\* the second is never emitted without the first, and the first without the
\* second only when the population is not above 0.
C18_TogetherWhenPositive ==
    NumPopChecked => \A i \in 1..NRows(upload.df) : \A g \in 1..Len(AgeGroups) :
        (HasColumn(upload.df, AgeGroups[g][2]) /\ HasColumn(upload.df, AgeGroups[g][3]))
            => BothWhenPositive(Cell(upload.df, i, AgeGroups[g][2]), Cell(upload.df, i, AgeGroups[g][3]),
                   ErrorCount(result.errors, "Numerator exceeds population", (i - 1) + 2, AgeGroups[g][2]),
                   ErrorCount(result.errors, "Vaccination rate exceeds 100%", (i - 1) + 2, AgeGroups[g][2]))

\* 500 of 400 in the second row of '75+ years': both errors at row 3
C18_Witness ==
    /\ NumPopChecked
    /\ upload.df.columns = RSV_COLUMNS
    /\ Cell(upload.df, 2, <<"7","5","+"," ","y","e","a","r","s"," ","n","u","m","e","r","a","t","o","r">>) = <<"5","0","0">>
    /\ Cell(upload.df, 2, <<"7","5","+"," ","y","e","a","r","s"," ","p","o","p","u","l","a","t","i","o","n">>) = <<"4","0","0">>
    /\ ErrorCount(result.errors, "Numerator exceeds population", 3, <<"7","5","+"," ","y","e","a","r","s"," ","n","u","m","e","r","a","t","o","r">>) = 1
    /\ ErrorCount(result.errors, "Vaccination rate exceeds 100%", 3, <<"7","5","+"," ","y","e","a","r","s"," ","n","u","m","e","r","a","t","o","r">>) = 1

\* C19: non-fatal findings are only appended as errors and never raised:
\* for every readable, non-empty, classifiable dataset, whatever its
\* numerator and population cells hold ('inf' included), every validator
\* returns normally and validate_prism_file returns a result.
C19_NeverRaised == pc # "raised"

\* rule (a): equal without their spaces, whatever the case
SpaceStrippedEqual(t, c) ==
    Replace(Strip(Lower(t)), <<" ">>, <<>>) = Replace(Strip(Lower(c)), <<" ">>, <<>>)

\* rule (b): both longer than 5, and at least 0.8 of the longer one's
\* positions hold the same character in both
PositionallySimilar(t, c) ==
    /\ Len(Strip(Lower(t))) > 5
    /\ Len(Strip(Lower(c))) > 5
    /\ 10 * Cardinality({p \in 1..Len(Strip(Lower(t))) :
                            p <= Len(Strip(Lower(c))) /\ Strip(Lower(t))[p] = Strip(Lower(c))[p]})
           >= 8 * Max({Len(Strip(Lower(t))), Len(Strip(Lower(c)))})

\* rule (c): both longer than 10, and one contains the other
OneContainsOther(t, c) ==
    /\ Len(Strip(Lower(t))) > 10
    /\ Len(Strip(Lower(c))) > 10
    /\ \/ Contains(Strip(Lower(c)), Strip(Lower(t)))
       \/ Contains(Strip(Lower(t)), Strip(Lower(c)))

\* the first of the candidates at the positions hits, <<>> when there is none
FirstOf(candidates, hits) == IF hits = {} THEN <<>> ELSE candidates[Min(hits)]

\* the best candidate by rule precedence: the first one that satisfies
\* (a), else the first one that satisfies (b), else the first one that
\* satisfies (c), else no match
BestByRule(target, candidates) ==
    IF \E k \in 1..Len(candidates) : SpaceStrippedEqual(target, candidates[k])
    THEN FirstOf(candidates, {k \in 1..Len(candidates) : SpaceStrippedEqual(target, candidates[k])})
    ELSE IF \E k \in 1..Len(candidates) : PositionallySimilar(target, candidates[k])
    THEN FirstOf(candidates, {k \in 1..Len(candidates) : PositionallySimilar(target, candidates[k])})
    ELSE FirstOf(candidates, {k \in 1..Len(candidates) : OneContainsOther(target, candidates[k])})

\* a candidate satisfies one of the three rules
AnyRule(t, c) ==
    SpaceStrippedEqual(t, c) \/ PositionallySimilar(t, c) \/ OneContainsOther(t, c)

\* the first of the candidates at the positions hits, unless it is the
\* target but for case and surrounding blanks; <<>> when hits is empty
UnlessEqual(target, candidates, hits) ==
    IF hits = {} THEN <<>>
    ELSE IF Strip(Lower(target)) = Strip(Lower(candidates[Min(hits)])) THEN <<>>
    ELSE candidates[Min(hits)]

\* the first candidate in iteration order that satisfies any of the rules
FirstByOrder(target, candidates) ==
    UnlessEqual(target, candidates, {k \in 1..Len(candidates) : AnyRule(target, candidates[k])})

\* the close matches the missing-type and extra-type errors of a list show
\* are those of Match: of an expected column among the file's columns, of a
\* column of the file among the expected ones
MatchesReported(errors, actual, expected, Match(_, _)) ==
    \A k \in 1..Len(errors) :
        /\ errors[k].message.kind = "Column typo?"
               => errors[k].message.args[1] = Match(errors[k].message.args[2], actual)
        /\ errors[k].message.kind = "Missing column"
               => Match(errors[k].message.args[1], actual) = <<>>
        /\ errors[k].message.kind = "Unexpected column - did you mean"
               => errors[k].message.args[2] = Match(errors[k].message.args[1], expected)
        /\ errors[k].message.kind = "Unexpected column"
               => Match(errors[k].message.args[1], expected) = <<>>

\* the claim as stated: the best candidate by rule precedence, and no match
\* only when no candidate satisfies a rule
C20_BestByRule ==
    StructureChecked
        => MatchesReported(result.errors, StripAll(upload.df.columns),
                           StripAll(get_expected_columns(result.report_type)), BestByRule)

\* C20: find_close_match returns the first candidate in iteration order
\* that satisfies (a) space-stripped case-insensitive equality, (b)
\* positional similarity >= 0.8 (both strings longer than 5) or (c)
\* substring containment (both longer than 10), whichever of the rules it
\* satisfies; it returns no match when no candidate satisfies (a), (b) or
\* (c), and when that first candidate is the target itself but for case
\* and surrounding whitespace.
C20_FirstByOrder ==
    StructureChecked
        => MatchesReported(result.errors, StripAll(upload.df.columns),
                           StripAll(get_expected_columns(result.report_type)), FirstByOrder)

\* '75+ years numerater' is found for '75+ years numerator' although
\* '75+years numerator' comes after it in the file
C20_Witness ==
    /\ StructureChecked
    /\ In(<<"7","5","+","y","e","a","r","s"," ","n","u","m","e","r","a","t","o","r">>, upload.df.columns)
    /\ \E k \in 1..Len(result.errors) :
           /\ result.errors[k].message.kind = "Column typo?"
           /\ result.errors[k].message.args = <<<<"7","5","+"," ","y","e","a","r","s"," ","n","u","m","e","r","a","t","e","r">>, <<"7","5","+"," ","y","e","a","r","s"," ","n","u","m","e","r","a","t","o","r">>>>

\* ------------------------------------------------------------------------
\* Properties of the legacy short-circuit
\* ------------------------------------------------------------------------

\* the kinds of the errors validate_structure has besides the legacy one
StructureKinds ==
    {"Column count mismatch", "Column typo?", "Missing column", "Extra blank column detected",
     "Unexpected column - did you mean", "Unexpected column", "Blank row detected",
     "Too many rows", "Only some months of data found"}

\* the one error of a file with a column of the previous template: at row
\* 0, naming an old column the file has
LegacyError(err, columns, old) ==
    /\ err.row = 0
    /\ In(err.message.args[1], old)
    /\ \E c \in 1..Len(columns) : Strip(Lower(columns[c])) = Lower(err.message.args[1])

\* C21: if any actual column name, compared case-insensitively and
\* trimmed, equals a known deprecated column of the classified report type,
\* validate_structure emits exactly one file-level error (row 0) naming
\* that column and none of the column-count, missing-column, extra-column,
\* blank-row or row-count errors; the other six sections still run.
C21_LegacyShortCircuit ==
    (pc \in {"integrity", "returned"} /\ result.report_type # NoType
        /\ HasLegacyColumn(upload.df.columns, OldColumns(result.report_type)))
        => /\ Len(OfKind(result.errors, "Old template detected")) = 1
           /\ LegacyError(OfKind(result.errors, "Old template detected")[1], upload.df.columns,
                          OldColumns(result.report_type))
           /\ KindCount(result.errors, StructureKinds) = 0
           /\ pc = "returned" => ran = Sections

\* a file of 25 columns and fewer than 12 rows, ' 65-74 Years Numerator '
\* among them, has been through all sections with the one structure error
C21_Witness ==
    /\ pc = "returned"
    /\ ran = Sections
    /\ In(<<" ","6","5","-","7","4"," ","Y","e","a","r","s"," ","N","u","m","e","r","a","t","o","r"," ">>, upload.df.columns)
    /\ NRows(upload.df) < 12
    /\ Len(OfKind(result.errors, "Old template detected")) = 1
    /\ OfKind(result.errors, "Old template detected")[1].message.args = <<<<"6","5","-","7","4"," ","y","e","a","r","s"," ","n","u","m","e","r","a","t","o","r">>>>
    /\ KindCount(result.errors, StructureKinds) = 0

\* ------------------------------------------------------------------------
\* Properties of the field value rules
\* ------------------------------------------------------------------------

\* the messages of validate_integer_value
IntegerKinds ==
    {"Placeholder text not allowed", "Remove comma formatting", "Scientific notation not allowed",
     "Invalid number", "Decimal not allowed, must be integer"}

\* the error the first failing rule gives the trimmed text of a cell, in
\* the order placeholder, comma, scientific notation, unparseable number,
\* non-integral value; none when the text is an integral number.  An
\* infinity is a number without an integral value.
FirstFailing(val_str, f) ==
    IF In(Lower(val_str), IntegerValuePlaceholders) THEN {"Placeholder text not allowed"}
    ELSE IF "," \in Range(val_str) THEN {"Remove comma formatting"}
    ELSE IF "e" \in Range(Lower(val_str)) /\ \E k \in 1..Len(val_str) : IsDigit(val_str[k])
      THEN {"Scientific notation not allowed"}
    ELSE IF f.kind \in {"ValueError", "nan"} THEN {"Invalid number"}
    ELSE IF f.kind = "inf" \/ f.frac THEN {"Decimal not allowed, must be integer"}
    ELSE {}

\* found are the errors of validate_integer_value for a cell, failing what
\* the rules give it: none for no failing rule, else the one of the first
FirstFailureWins(found, failing) ==
    IF failing = {} THEN found = <<>>
    ELSE Len(found) = 1 /\ found[1].message.kind \in failing

\* the errors of a list for one row and field whose kind is one of kinds
KindsAt(errors, kinds, row_num, field) ==
    SelectIdx(errors, {k \in 1..Len(errors) : /\ errors[k].row = row_num
                                              /\ errors[k].field = field
                                              /\ errors[k].message.kind \in kinds}, 1)

\* the rule for every non-empty cell of the numerator and population columns
FieldValueRules(df, errors) ==
    \A i \in 1..NRows(df) : \A c \in 1..Len(df.columns) :
        (IsNumericColumn(df.columns[c]) /\ NotNa(df.rows[i][c]))
            => FirstFailureWins(KindsAt(errors, IntegerKinds, (i - 1) + 2, df.columns[c]),
                                FirstFailing(Strip(df.rows[i][c]), ParseFloat(df.rows[i][c])))

\* C22: for every non-empty cell of a numerator/population column,
\* validate_integer_value reports at most one error, that of the first
\* failing rule in the order placeholder, comma, scientific notation,
\* unparseable number, non-integral value; it reports none exactly when the
\* cell parses to an integral value and none of the earlier rules applies.
C22_FirstFailureWins ==
    (pc \in {"rollups", "raised"}) => FieldValueRules(upload.df, result.errors)

\* ------------------------------------------------------------------------
\* Properties of the suggested file name
\* ------------------------------------------------------------------------

\* the name in capitals without its extension
UpperStem(filename) == StripExtension(Upper(filename))

\* the two letters of a state stand in the name as a token: an underscore or
\* the edge of the name on each side
BoundedToken(stem, state) ==
    \E p \in 1..(Len(stem) - 1) :
        /\ SubSeq(stem, p, p + 1) = state
        /\ p = 1 \/ stem[p - 1] = "_"
        /\ p + 1 = Len(stem) \/ stem[p + 2] = "_"

\* the sites a suggestion may name: a site code found in the name, else the
\* site of a state found as a token, else the placeholder
SitesOf(upper_name, codes, states) ==
    IF codes # {} THEN {VALID_SITE_CODES[i] : i \in codes}
    ELSE IF states # {} THEN {StateToSite[i][2] : i \in states}
    ELSE {<<"X","X","X">>}

ResolvedSites(filename) ==
    SitesOf(Upper(filename),
            {i \in 1..Len(VALID_SITE_CODES) : Contains(Upper(filename), VALID_SITE_CODES[i])},
            {i \in 1..Len(StateToSite) : BoundedToken(UpperStem(filename), StateToSite[i][1])})

\* the one file-level error of a name of no grammar, with a suggestion made
\* of the type's prefix, one of the sites and the configured period
SuggestionOf(found, report_type, config, sites) ==
    /\ Len(found) = 1
    /\ found[1].row = 0
    /\ found[1].message.kind = "Incorrect filename format"
    /\ \E site \in sites :
          found[1].message.args[5] =
              FilenamePrefix(report_type) \o <<"_">> \o site \o <<"_">>
                  \o IntToStr(config.expected_year) \o config.expected_month \o <<".","c","s","v">>

\* C23: a file name of no grammar gets exactly one file-level filename
\* error, and the name it suggests is the prefix of the classified type, the
\* site (a valid site code occurring in the name, else the site of a state
\* token bounded by underscores or the edges of the name, else XXX) and the
\* configured year and month
C23_SuggestedName ==
    (pc = "structure" /\ PatternType(StripExtension(upload.name)) = NoType)
        => SuggestionOf(FilenameErrors(result.errors), result.report_type, fnConfig[1],
                        ResolvedSites(upload.name))

\* ------------------------------------------------------------------------
\* Properties of the zero logic
\* ------------------------------------------------------------------------

\* the population of the row parses to 0 and the numerator to a positive number
ZeroWithVaccinations(num, pop) ==
    num # <<>> /\ pop = <<0>> /\ num[1] > 0

\* the errors of the zero-population check at a row for a population column
ZeroErrorsAt(errors, row_num, pop_col) ==
    {k \in 1..Len(errors) : /\ errors[k].message.kind = "Population is 0 but vaccinations reported"
                            /\ errors[k].row = row_num
                            /\ errors[k].field = pop_col}

\* every row of every pair of the file with population 0 and a positive
\* numerator has its error
ZeroPairsReported(df, errors, groups) ==
    \A g \in groups : \A i \in 1..NRows(df) :
        (/\ HasColumn(df, AgeGroups[g][2]) /\ HasColumn(df, AgeGroups[g][3])
         /\ ZeroWithVaccinations(ParsedValue(Cell(df, i, AgeGroups[g][2])),
                                 ParsedValue(Cell(df, i, AgeGroups[g][3]))))
            => ZeroErrorsAt(errors, (i - 1) + 2, AgeGroups[g][3]) # {}

\* C24: after the quality checks, for every age-group pair (the rollup pairs
\* 'All adults (+18)' and 'Overall (all ages)' included) and every row whose
\* population parses to 0 while the numerator parses positive, there is a
\* zero-population error at that row for the pair's population column
C24_ZeroPopulationReported ==
    (pc = "finish") => ZeroPairsReported(upload.df, result.errors, 1..Len(AgeGroups))

\* ------------------------------------------------------------------------
\* Properties of the season label
\* ------------------------------------------------------------------------

\* a number below 100 in two digits
TwoDigits(n) == IF n < 10 THEN <<"0">> \o NatToStr(n) ELSE NatToStr(n)

SecondHalf == {<<"J","U","L">>, <<"A","U","G">>, <<"S","E","P">>, <<"O","C","T">>, <<"N","O","V">>, <<"D","E","C">>}

\* the season of a period: it begins in July
SeasonOfPeriod(year, month) ==
    IF month \in SecondHalf
    THEN IntToStr(year) \o <<"-">> \o TwoDigits((year + 1) % 100)
    ELSE IntToStr(year - 1) \o <<"-">> \o TwoDigits(year % 100)

\* the season errors are file-level errors of the season column
FileLevelAt(found, season_col) ==
    \A k \in 1..Len(found) : found[k].row = 0 /\ found[k].field = season_col

\* one error when the label differs from the season of the period read for
\* the comparison, none when it is that season; a file without a label has
\* nothing to compare and no error
MismatchIff(found, label, config) ==
    Len(found) = IF label = <<>> THEN 0
                 ELSE IF label # SeasonOfPeriod(config[1].expected_year, config[1].expected_month)
                   THEN 1 ELSE 0

CopyPasteErrorsAt(errors, col) ==
    {k \in 1..Len(errors) : /\ errors[k].message.kind = "Possible copy-paste error"
                            /\ errors[k].field = col}

\* three consecutive rows hold the same positive integer
SameThrice(values) ==
    \E i \in 1..(Len(values) - 2) :
        /\ values[i] # <<>> /\ values[i][1] > 0
        /\ values[i + 1] = values[i]
        /\ values[i + 2] = values[i]

\* one error for a column with such rows, none for any other
OnePerRepeatedColumn(df, errors) ==
    \A c \in 1..Len(df.columns) :
        Contains(Lower(df.columns[c]), <<"n","u","m","e","r","a","t","o","r">>)
            => Cardinality(CopyPasteErrorsAt(errors, df.columns[c]))
                  = IF SameThrice(ParsedColumn(df, df.columns[c])) THEN 1 ELSE 0

RowOfResult(row, row_count) ==
    row = 0 \/ (2 <= row /\ row <= row_count + 1)

\* C27: in every returned result, the row of every error is 0 or the number
\* index + 2 of a data row, between 2 and row_count + 1: no error has row 1
\* or a row after the last data row
C27_RowNumbers ==
    (pc = "returned")
        => \A k \in 1..Len(result.errors) : RowOfResult(result.errors[k].row, result.row_count)

\* a returned result with a file-level error, an error at the first data
\* row and an error at the last one
C27_Witness ==
    /\ pc = "returned"
    /\ result.row_count = MaxRows
    /\ \E k \in 1..Len(result.errors) : result.errors[k].row = 0
    /\ \E k \in 1..Len(result.errors) : result.errors[k].row = 2
    /\ \E k \in 1..Len(result.errors) : result.errors[k].row = result.row_count + 1

\* ------------------------------------------------------------------------
\* Properties of the configuration update
\* ------------------------------------------------------------------------

\* a request with a wrong password, a year that is no integer or a month
\* that is none of the 12 codes
InvalidRequest(data) ==
    \/ data.password # <<"p","r","i","s","m","2","0","2","4">>
    \/ data.expected_year.present /\ IntRaises(data.expected_year.value)
    \/ data.expected_month.present /\ ~In(Upper(data.expected_month.value), FILENAME_MONTHS)

\* an invalid request leaves the stored configuration as it is and starts
\* no write
RejectedKeeps ==
    \A data \in AdminRequests :
        (UpdateConfig(data) /\ InvalidRequest(data))
            => configFile' = configFile /\ adminPc' = "idle"

\* the month of the stored configuration is one of the 12 codes
StoredMonthValid ==
    /\ In(load_config(configFile).expected_month, FILENAME_MONTHS)
    /\ configFile.state = "ok" => In(configFile.data.expected_month, FILENAME_MONTHS)

\* C28: update_config is all-or-nothing: a request with a wrong password,
\* an invalid year or an invalid month leaves the stored configuration
\* unchanged (a valid year sent with an invalid month is not stored), and
\* after any sequence of requests from the default the stored
\* expected_month is one of the 12 three-letter codes
C28_AllOrNothing == [][RejectedKeeps]_vars /\ []StoredMonthValid

\* a request was rejected as invalid while the stored period was July 2031,
\* and it still is
C28_Witness ==
    /\ response = 400
    /\ adminPc = "idle"
    /\ configFile = [state |-> "ok", data |-> [expected_year |-> 2031, expected_month |-> <<"J","U","L">>]]

\* ------------------------------------------------------------------------
\* The submission history, written by concurrent submit requests
\* ------------------------------------------------------------------------

\* the files one request submits
MaxFiles == 2

\* load_submissions: the list in the file, the empty list when the file is
\* missing or is no JSON
load_submissions(file) == IF file.state = "ok" THEN file.data ELSE <<>>

\* result.to_dict() of the file a request has validated; the request and the
\* file's place in it stand for the submission_id that tells it from the others
to_dict(r, k) == [request |-> r, file |-> k]

\* submit: the next file of the request is validated
ValidateFile(r) ==
    /\ requests[r].pc = "idle"
    /\ requests[r].files < MaxFiles
    /\ requests' = [requests EXCEPT ![r].pc = "validated",
                                    ![r].result = <<to_dict(r, requests[r].files + 1)>>]
    /\ UNCHANGED <<dataFile, adminVars, engineVars, seasonVars>>

\* save_submission: submissions = load_submissions() and
\* submissions.insert(0, result.to_dict())
LoadSubmissions(r) ==
    /\ requests[r].pc = "validated"
    /\ requests' = [requests EXCEPT ![r].pc = "loaded",
                                    ![r].submissions = requests[r].result \o load_submissions(dataFile)]
    /\ UNCHANGED <<dataFile, adminVars, engineVars, seasonVars>>

\* save_submission: open(DATA_FILE, 'w') empties the file
OpenDataFile(r) ==
    /\ requests[r].pc = "loaded"
    /\ dataFile' = [state |-> "partial", data |-> <<>>]
    /\ requests' = [requests EXCEPT ![r].pc = "opened"]
    /\ UNCHANGED <<adminVars, engineVars, seasonVars>>

\* what json.dump leaves in the file: the list, or, when another request
\* has written the file since this one opened it, possibly the list
\* followed by the end of the other's text
Dumped(file, submissions) ==
    {[state |-> "ok", data |-> submissions]}
        \cup (IF file.state = "ok" THEN {[state |-> "partial", data |-> <<>>]} ELSE {})

\* save_submission: json.dump(submissions, f), and the file is closed
DumpSubmissions(r) ==
    /\ requests[r].pc = "opened"
    /\ dataFile' \in Dumped(dataFile, requests[r].submissions)
    /\ requests' = [requests EXCEPT ![r].pc = "idle", ![r].result = <<>>, ![r].submissions = <<>>,
                                    ![r].files = requests[r].files + 1]
    /\ UNCHANGED <<adminVars, engineVars, seasonVars>>

save_submission(r) == LoadSubmissions(r) \/ OpenDataFile(r) \/ DumpSubmissions(r)

NextHistory ==
    \/ \E r \in Requests : ValidateFile(r)
    \/ \E r \in Requests : save_submission(r)

SpecHistory == Init /\ [][NextHistory]_vars

\* ------------------------------------------------------------------------
\* Properties of the submission history
\* ------------------------------------------------------------------------

\* the files whose save_submission has returned
SavedFiles == UNION {{to_dict(r, k) : k \in 1..requests[r].files} : r \in Requests}

\* no request is between its validation and the end of save_submission
Quiet == \A r \in Requests : requests[r].pc = "idle"

\* C29: the history only grows: each save_submission adds one record at the
\* front and keeps the records stored before, so when no request is inside
\* a save the history holds one record for each of the n files validated
\* and saved, also when two requests interleave the load and write steps of
\* save_submission
C29_AppendOnly ==
    Quiet => /\ Len(load_submissions(dataFile)) = Cardinality(SavedFiles)
             /\ Range(load_submissions(dataFile)) = SavedFiles

\* ------------------------------------------------------------------------
\* The season of a configured period, judged by the format check
\* ------------------------------------------------------------------------

\* years of 4 digits: the first and the last, turns of a century, and the
\* years in use
Years == {1000, 1001, 1999, 2000, 2025, 2026, 2099, 2100, 9998, 9999}

Periods == [expected_year : Years, expected_month : Range(FILENAME_MONTHS)]

InitSeason == InitProgram /\ period \in Periods

\* validate_season_mismatch: the expected season of the configured period
DeriveSeason ==
    /\ expected_season = <<>>
    /\ expected_season' = <<ExpectedSeason(period.expected_year, period.expected_month)>>
    /\ UNCHANGED <<period, format_ok, adminVars, engineVars, historyVars>>

\* validate_season_format, called with that season
CheckSeasonFormat ==
    /\ expected_season # <<>>
    /\ format_ok = <<>>
    /\ format_ok' = <<validate_season_format(expected_season[1])>>
    /\ UNCHANGED <<period, expected_season, adminVars, engineVars, historyVars>>

NextSeason == DeriveSeason \/ CheckSeasonFormat

SpecSeason == InitSeason /\ [][NextSeason]_vars

\* ------------------------------------------------------------------------
\* Properties of the season of a period
\* ------------------------------------------------------------------------

\* the periods whose season begins before the year 1000 or ends after the
\* year 9999
EdgePeriod(p) ==
    \/ p.expected_year = 1000 /\ p.expected_month \notin SecondHalf
    \/ p.expected_year = 9999 /\ p.expected_month \in SecondHalf

\* C30 as claimed: for every period of a 4-digit year and one of the 12
\* months, the expected season derived from the period is accepted by
\* validate_season_format
C30_AlwaysAccepted ==
    format_ok # <<>> => format_ok[1]

\* C30: for every period of a 4-digit year and one of the 12 months, but
\* the first half of the year 1000 and the second half of the year 9999,
\* the expected season derived from the period is accepted by
\* validate_season_format; the seasons of those two half years, '999-00'
\* and '9999-000', are not
C30_AcceptedButEdges ==
    format_ok # <<>> => (format_ok[1] <=> ~EdgePeriod(period))

\* the season 2025-26 of January 2026 has been accepted
C30_Witness ==
    /\ period = [expected_year |-> 2026, expected_month |-> <<"J","A","N">>]
    /\ expected_season = <<<<"2","0","2","5","-","2","6">>>>
    /\ format_ok = <<TRUE>>

====
